---------------------------- MODULE Spec2Model ----------------------------
(***************************************************************************)
(* OWID-categories: the category-edit decision logic (categorize/wiki.py), *)
(* the edit orchestrator (run_continents.py), the title classifier and the *)
(* aggregator (fetch_commons_files.py).                                    *)
(*                                                                         *)
(* A Python str is a sequence of one-character strings, so that lower(),   *)
(* replace(), rstrip(), find(), `in` and the two regular expressions are   *)
(* computed character by character, as the code computes them.             *)
(***************************************************************************)
EXTENDS Integers, Sequences, FiniteSets, TLC

VARIABLES
    wiki,        \* site.pages: title -> [exists, text]
    wiki0,       \* the wiki as it was when the run started
    op,          \* the add_category_to_page call in progress (its locals)
    saves,       \* every page.save made: <<[title, text, summary]>>
    calls,       \* number of add_category_to_page calls started (edit driver)
    lastCheck    \* a direct category_exists_on_page call: its arguments and result

VARIABLES
    events,          \* the run's wiki saves and time.sleep calls, in order
    args,            \* main's arguments and the process's surroundings
    continent_files, \* main: the entity files still to be looked at, loaded contents
    mpc,             \* main: where it is
    fidx,            \* main: index of the entity file in hand
    total_stats,     \* main: total_stats
    pcf              \* process_continent_file: its locals

VARIABLES
    cls,             \* a classify_and_parse_file call: its title and its result
    files,           \* process_files: the title list
    idx,             \* process_files: index of the title in hand
    countries,       \* process_files: countries
    not_matched,     \* process_files: not_matched
    stats            \* process_files: stats

VARIABLES
    named            \* a build_category_name call: its arguments and its result

VARIABLES
    fm,              \* fetch_commons_files.main: where it is, its locals, the files written
    fcm              \* fetch_category_members: its locals, the requests made, the sleeps

VARIABLES
    ops,             \* two add_category_to_page calls in flight: the locals of each
    order            \* their page.text() and page.save() calls, in the order made

editVars == <<wiki, wiki0, op, saves, calls, events>>
pureVars == <<lastCheck, cls, named>>
runVars == <<args, continent_files, mpc, fidx, total_stats, pcf>>
aggVars == <<files, idx, countries, not_matched, stats>>
fetchVars == <<fm, fcm>>
raceVars == <<ops, order>>

vars == <<editVars, pureVars, runVars, aggVars, fetchVars, raceVars>>

(***************************************************************************)
(* Bounds of the model.                                                    *)
(***************************************************************************)
MaxCalls == 3
MaxEntityFiles == 2
MaxTitles == 3

(***************************************************************************)
(* Python str operations.                                                  *)
(***************************************************************************)
UpperAlpha == <<"A","B","C","D","E","F","G","H","I","J","K","L","M",
                "N","O","P","Q","R","S","T","U","V","W","X","Y","Z">>
LowerAlpha == <<"a","b","c","d","e","f","g","h","i","j","k","l","m",
                "n","o","p","q","r","s","t","u","v","w","x","y","z">>
Digits == <<"0","1","2","3","4","5","6","7","8","9">>

Range(f) == {f[i] : i \in DOMAIN f}

IsUpper(c) == c \in Range(UpperAlpha)
\* \s of re, and the characters str.strip() removes
SpaceChars == {" ", "\t", "\n", "\r", "\f"}
IsSpace(c) == c \in SpaceChars
\* \w of re
WordChars == Range(UpperAlpha) \cup Range(LowerAlpha) \cup Range(Digits) \cup {"_"}

LowerChar(c) ==
    IF IsUpper(c)
    THEN LowerAlpha[CHOOSE k \in DOMAIN UpperAlpha : UpperAlpha[k] = c]
    ELSE c

\* str.lower()
Lower(s) == [i \in 1..Len(s) |-> LowerChar(s[i])]

\* s[i:].startswith(p), i counted from 1
StartsWithAt(s, p, i) ==
    /\ i >= 1
    /\ i + Len(p) - 1 <= Len(s)
    /\ SubSeq(s, i, i + Len(p) - 1) = p

\* s.startswith(p)
StartsWith(s, p) == StartsWithAt(s, p, 1)

\* p in s
Contains(s, p) == \E i \in 1..(Len(s) - Len(p) + 1) : StartsWithAt(s, p, i)

\* s.find(p), counted from 1; 0 stands for Python's -1
Find(s, p) ==
    IF Contains(s, p)
    THEN CHOOSE i \in 1..(Len(s) - Len(p) + 1) :
            /\ StartsWithAt(s, p, i)
            /\ \A j \in 1..(i - 1) : ~StartsWithAt(s, p, j)
    ELSE 0

RECURSIVE ReplaceFrom(_, _, _, _)
ReplaceFrom(s, old, new, i) ==
    IF i > Len(s) THEN <<>>
    ELSE IF StartsWithAt(s, old, i)
         THEN new \o ReplaceFrom(s, old, new, i + Len(old))
         ELSE <<s[i]>> \o ReplaceFrom(s, old, new, i + 1)

\* s.replace(old, new) for a non-empty old: every non-overlapping occurrence, left to right
Replace(s, old, new) == ReplaceFrom(s, old, new, 1)

RECURSIVE RStrip(_)
\* s.rstrip()
RStrip(s) ==
    IF s = <<>> THEN s
    ELSE IF IsSpace(s[Len(s)]) THEN RStrip(SubSeq(s, 1, Len(s) - 1))
    ELSE s

RECURSIVE LStrip(_)
\* s.lstrip()
LStrip(s) ==
    IF s = <<>> THEN s
    ELSE IF IsSpace(s[1]) THEN LStrip(SubSeq(s, 2, Len(s)))
    ELSE s

\* s.strip()
Strip(s) == LStrip(RStrip(s))

EndsWith(s, p) == Len(p) <= Len(s) /\ SubSeq(s, Len(s) - Len(p) + 1, Len(s)) = p

\* Optional[str]: None, or a str
NoneStr == [none |-> TRUE, s |-> <<>>]
Some(s) == [none |-> FALSE, s |-> s]
\* Python truth value of an Optional[str]
Truthy(o) == ~o.none /\ o.s # <<>>

(***************************************************************************)
(* String constants of the program.                                        *)
(***************************************************************************)
S_Category == <<"C","a","t","e","g","o","r","y",":">>
S_category == <<"c","a","t","e","g","o","r","y",":">>
S_Open == <<"[","[">>
S_Close == <<"]","]">>
S_NL == <<"\n">>
S_Add == <<"A","d","d"," ">>
S_CreateSummary == <<"C","r","e","a","t","e"," ","c","a","t","e","g","o","r","y"," ",
                     "f","o","r"," ","O","W","I","D"," ","g","r","a","p","h","s">>

(***************************************************************************)
(* categorize/wiki.py                                                      *)
(***************************************************************************)
\* the four bracketed forms category_exists_on_page looks for
CategoryChecks(category) ==
    LET category_simple == Replace(category, S_Category, <<>>) IN
    { S_Open \o category \o S_Close,
      S_Open \o Lower(category) \o S_Close,
      S_Open \o S_Category \o category_simple \o S_Close,
      S_Open \o S_category \o category_simple \o S_Close }

category_exists_on_pageLowerOnly(page_text, category) ==
    IF ~Truthy(page_text) THEN FALSE
    ELSE Contains(page_text.s, S_Open \o Lower(category) \o S_Close)

category_exists_on_page(page_text, category) ==
    IF ~Truthy(page_text) THEN FALSE
    ELSE \E check \in CategoryChecks(category) : Contains(page_text.s, check)

\* new_text of add_category_to_page
AddNewTextNoTrim(current_text, category) ==
    current_text \o S_NL \o S_Open \o category \o S_Close \o S_NL

AddNewText(current_text, category) ==
    RStrip(current_text) \o S_NL \o S_Open \o category \o S_Close \o S_NL

\* edit_summary of add_category_to_page
AddSummary(category) == S_Add \o category

\* the locals of one add_category_to_page call
IdleOp == [pc |-> "idle", title |-> <<>>, category |-> <<>>, dry_run |-> FALSE,
           current_text |-> <<>>, new_text |-> <<>>, result |-> "none",
           reads |-> 0, writes |-> 0]

NewOp(title, category, dry_run) ==
    [IdleOp EXCEPT !.pc = "page", !.title = title, !.category = category,
                   !.dry_run = dry_run]

AddPageStepNoExistsCheck(o, w) == [o EXCEPT !.pc = "text"]

\* page = site.pages[title]; if not page.exists: return False
AddPageStep(o, w) ==
    IF ~w[o.title].exists
    THEN [o EXCEPT !.pc = "done", !.result = "False"]
    ELSE [o EXCEPT !.pc = "text"]

AddReadStepNoDryRun(o, w) ==
    LET current_text == w[o.title].text
        r == [o EXCEPT !.current_text = current_text, !.reads = @ + 1]
    IN  IF category_exists_on_page(Some(current_text), o.category)
        THEN [r EXCEPT !.pc = "done", !.result = "False"]
        ELSE [r EXCEPT !.pc = "save",
                       !.new_text = AddNewText(current_text, o.category)]

\* current_text = page.text(); the category check; new_text; the dry-run return
AddReadStep(o, w) ==
    LET current_text == w[o.title].text
        r == [o EXCEPT !.current_text = current_text, !.reads = @ + 1]
    IN  IF category_exists_on_page(Some(current_text), o.category)
        THEN [r EXCEPT !.pc = "done", !.result = "False"]
        ELSE LET n == [r EXCEPT !.new_text = AddNewText(current_text, o.category)]
             IN  IF o.dry_run
                 THEN [n EXCEPT !.pc = "done", !.result = "True"]
                 ELSE [n EXCEPT !.pc = "save"]

\* page.save(new_text, summary=edit_summary): the page after it
SavedPage(text) == [exists |-> TRUE, text |-> text]
SaveEntry(title, text, summary) == [title |-> title, text |-> text, summary |-> summary]

\* page.save(new_text, summary=edit_summary); return True
AddSaveStep(o) == [o EXCEPT !.pc = "done", !.result = "True", !.writes = @ + 1]

Link(keyword, name) == S_Open \o keyword \o name \o S_Close

EnsureContentNoSortKey(parent_category, sort_key) ==
    S_Open \o S_Category \o parent_category \o S_Close

\* category_content and the save of ensure_category_exists
EnsureContent(parent_category, sort_key) ==
    S_Open \o S_Category \o parent_category \o <<"|">> \o sort_key \o S_Close

\* ensure_category_exists: whether it saves (it returns True either way)
EnsureSavesAlways(w, category_title, dry_run) == ~w[category_title].exists

EnsureSaves(w, category_title, dry_run) ==
    /\ ~w[category_title].exists
    /\ ~dry_run

\* what MediaWiki lists as members of a category: the existing pages whose
\* text links to it
CategoryMembers(w, category_name) ==
    { t \in DOMAIN w :
        /\ w[t].exists
        /\ \/ Contains(w[t].text, Link(S_Category, category_name))
           \/ Contains(w[t].text, Link(S_category, category_name)) }

get_category_member_count(w, category) ==
    LET category_name == Replace(category, S_Category, <<>>)
        category_page == S_Category \o category_name
    IN  IF category_page \notin DOMAIN w \/ ~w[category_page].exists
        THEN 0
        ELSE Cardinality(CategoryMembers(w, category_name))

(***************************************************************************)
(* categorize/utils.py                                                     *)
(***************************************************************************)
S_graphs == <<"g","r","a","p","h","s">>
S_maps == <<"m","a","p","s">>
S_the == <<"t","h","e"," ">>
S_OWID == <<"C","a","t","e","g","o","r","y",":","O","u","r"," ","W","o","r","l","d"," ",
            "i","n"," ","D","a","t","a"," ">>
S_of == <<" ","o","f"," ">>
S_World == <<"W","o","r","l","d">>
S_ByContinent == <<"O","u","r"," ","W","o","r","l","d"," ","i","n"," ","D","a","t","a"," ",
                   "g","r","a","p","h","s"," ","b","y"," ","c","o","n","t","i","n","e","n","t">>
S_ByCountry == <<"O","u","r"," ","W","o","r","l","d"," ","i","n"," ","D","a","t","a"," ",
                 "g","r","a","p","h","s"," ","b","y"," ","c","o","u","n","t","r","y">>

countries_with_the ==
    { <<"D","e","m","o","c","r","a","t","i","c"," ","R","e","p","u","b","l","i","c"," ","o","f"," ","C","o","n","g","o">>,
      <<"D","o","m","i","n","i","c","a","n"," ","R","e","p","u","b","l","i","c">>,
      <<"P","h","i","l","i","p","p","i","n","e","s">>,
      <<"N","e","t","h","e","r","l","a","n","d","s">>,
      <<"U","n","i","t","e","d"," ","A","r","a","b"," ","E","m","i","r","a","t","e","s">>,
      <<"U","n","i","t","e","d"," ","K","i","n","g","d","o","m">>,
      <<"U","n","i","t","e","d"," ","S","t","a","t","e","s">>,
      <<"C","z","e","c","h"," ","R","e","p","u","b","l","i","c">>,
      <<"C","e","n","t","r","a","l"," ","A","f","r","i","c","a","n"," ","R","e","p","u","b","l","i","c">>,
      <<"M","a","l","d","i","v","e","s">>,
      <<"S","e","y","c","h","e","l","l","e","s">>,
      <<"B","a","h","a","m","a","s">>,
      <<"M","a","r","s","h","a","l","l"," ","I","s","l","a","n","d","s">>,
      <<"S","o","l","o","m","o","n"," ","I","s","l","a","n","d","s">>,
      <<"C","o","m","o","r","o","s">>,
      <<"G","a","m","b","i","a">>,
      <<"V","a","t","i","c","a","n"," ","C","i","t","y">>,
      <<"V","a","t","i","c","a","n">> }

normalize_country_name(country) ==
    IF country \in countries_with_the THEN S_the \o country ELSE country

\* the pre_defined_categories table of build_category_name
pre_defined_categories(files_type) ==
    IF files_type = S_graphs
    THEN [entity \in {S_World} |-> S_OWID \o S_graphs \o S_of \o S_the \o <<"w","o","r","l","d">>]
    ELSE [entity \in {S_World} |-> S_OWID \o S_maps \o S_of \o S_the \o <<"w","o","r","l","d">>]

build_category_nameAnyKind(entity_name, category_type, files_type_arg) ==
    LET files_type == IF files_type_arg \notin {S_graphs, S_maps}
                      THEN S_graphs ELSE files_type_arg
    IN  IF entity_name \in DOMAIN pre_defined_categories(files_type)
        THEN pre_defined_categories(files_type)[entity_name]
        ELSE S_OWID \o files_type \o S_of \o normalize_country_name(entity_name)

build_category_name(entity_name, category_type, files_type_arg) ==
    LET files_type == IF files_type_arg \notin {S_graphs, S_maps}
                      THEN S_graphs ELSE files_type_arg
    IN  IF entity_name \in DOMAIN pre_defined_categories(files_type)
        THEN pre_defined_categories(files_type)[entity_name]
        ELSE LET normalized_name ==
                     IF category_type = "country"
                     THEN normalize_country_name(entity_name)
                     ELSE entity_name
             IN  S_OWID \o files_type \o S_of \o normalized_name

get_parent_category(category_type) ==
    IF category_type = "continent" THEN S_ByContinent ELSE S_ByCountry

(***************************************************************************)
(* fetch_commons_files.py: the two patterns, classify_and_parse_file and   *)
(* process_files.                                                          *)
(***************************************************************************)
S_File == <<"F","i","l","e",":">>
S_svg == <<".","s","v","g">>
S_to == <<"t","o">>
S_WikiUrl == <<"h","t","t","p","s",":","/","/","c","o","m","m","o","n","s",".","w","i","k","i","m","e","d","i","a",".","o","r","g","/","w","i","k","i","/">>

\* the end of the longest run of characters of a class that starts at s[i]:
\* the index of the first character after it
RunEnd(s, i, class) ==
    CHOOSE j \in i..(Len(s) + 1) :
        /\ \A k \in i..(j - 1) : s[k] \in class
        /\ j = Len(s) + 1 \/ s[j] \notin class

\* $ of re: the end of the string, or just before a newline that ends it
AtEnd(s, i) == i = Len(s) + 1 \/ (i = Len(s) /\ s[i] = "\n")

CharAt(s, i) == IF i \in 1..Len(s) THEN s[i] ELSE ""

\* [A-Za-z \(\)-] of MAP_PATTERN
RegionChars == Range(UpperAlpha) \cup Range(LowerAlpha) \cup {" ", "(", ")", "-"}

\* GRAPH_PATTERN tried at position i: ,\s*(\d+)\s+to\s+(\d+),\s*(\w+)\.svg$
\* Every class is followed by a character outside it, so each run is the longest.
GraphMatchAt(s, i) ==
    LET a1 == RunEnd(s, i + 1, SpaceChars)
        a2 == RunEnd(s, a1, Range(Digits))
        a3 == RunEnd(s, a2, SpaceChars)
        a4 == a3 + Len(S_to)
        a5 == RunEnd(s, a4, SpaceChars)
        a6 == RunEnd(s, a5, Range(Digits))
        a7 == RunEnd(s, a6 + 1, SpaceChars)
        a8 == RunEnd(s, a7, WordChars)
        ok == /\ CharAt(s, i) = ","
              /\ a2 > a1
              /\ a3 > a2
              /\ StartsWithAt(s, S_to, a3)
              /\ a5 > a4
              /\ a6 > a5
              /\ CharAt(s, a6) = ","
              /\ a8 > a7
              /\ StartsWithAt(s, S_svg, a8)
              /\ AtEnd(s, a8 + Len(S_svg))
    IN  IF ok
        THEN [ok |-> TRUE, g1 |-> SubSeq(s, a1, a2 - 1), g2 |-> SubSeq(s, a5, a6 - 1),
              g3 |-> SubSeq(s, a7, a8 - 1)]
        ELSE [ok |-> FALSE, g1 |-> <<>>, g2 |-> <<>>, g3 |-> <<>>]

MapMatchAtAnyFirstAndDigits(s, i) ==
    LET b1 == RunEnd(s, i + 1, SpaceChars)
        b2 == RunEnd(s, b1 + 1, RegionChars \cup Range(Digits))
        b3 == RunEnd(s, b2 + 1, SpaceChars)
        b4 == RunEnd(s, b3, Range(Digits))
        ok == /\ CharAt(s, i) = ","
              /\ CharAt(s, b1) \in RegionChars \cup Range(Digits)
              /\ b2 > b1 + 1
              /\ CharAt(s, b2) = ","
              /\ b4 > b3
              /\ StartsWithAt(s, S_svg, b4)
              /\ AtEnd(s, b4 + Len(S_svg))
    IN  IF ok
        THEN [ok |-> TRUE, g1 |-> SubSeq(s, b1, b2 - 1), g2 |-> SubSeq(s, b3, b4 - 1)]
        ELSE [ok |-> FALSE, g1 |-> <<>>, g2 |-> <<>>]

\* MAP_PATTERN tried at position i: ,\s*([A-Z][A-Za-z \(\)-]+),\s*(\d+)\.svg$
MapMatchAt(s, i) ==
    LET b1 == RunEnd(s, i + 1, SpaceChars)
        b2 == RunEnd(s, b1 + 1, RegionChars)
        b3 == RunEnd(s, b2 + 1, SpaceChars)
        b4 == RunEnd(s, b3, Range(Digits))
        ok == /\ CharAt(s, i) = ","
              /\ IsUpper(CharAt(s, b1))
              /\ b2 > b1 + 1
              /\ CharAt(s, b2) = ","
              /\ b4 > b3
              /\ StartsWithAt(s, S_svg, b4)
              /\ AtEnd(s, b4 + Len(S_svg))
    IN  IF ok
        THEN [ok |-> TRUE, g1 |-> SubSeq(s, b1, b2 - 1), g2 |-> SubSeq(s, b3, b4 - 1)]
        ELSE [ok |-> FALSE, g1 |-> <<>>, g2 |-> <<>>]

\* pattern.search(title): the match at the leftmost position that has one
GraphSearch(s) ==
    IF \E i \in 1..Len(s) : GraphMatchAt(s, i).ok
    THEN GraphMatchAt(s, CHOOSE i \in 1..Len(s) :
                            /\ GraphMatchAt(s, i).ok
                            /\ \A j \in 1..(i - 1) : ~GraphMatchAt(s, j).ok)
    ELSE GraphMatchAt(s, 0)

MapSearch(s) ==
    IF \E i \in 1..Len(s) : MapMatchAt(s, i).ok
    THEN MapMatchAt(s, CHOOSE i \in 1..Len(s) :
                          /\ MapMatchAt(s, i).ok
                          /\ \A j \in 1..(i - 1) : ~MapMatchAt(s, j).ok)
    ELSE MapMatchAt(s, 0)

DigitValue(c) == (CHOOSE k \in DOMAIN Digits : Digits[k] = c) - 1

RECURSIVE ParseInt(_)
\* int(s) for a non-empty string of digits
ParseInt(s) ==
    IF s = <<>> THEN 0
    ELSE 10 * ParseInt(SubSeq(s, 1, Len(s) - 1)) + DigitValue(s[Len(s)])

normalize_title(title) ==
    IF StartsWith(title, S_File) THEN SubSeq(title, Len(S_File) + 1, Len(title)) ELSE title

\* indicator: everything before the first comma in the normalized name
IndicatorOf(title) ==
    LET base_name == normalize_title(title)
        first_comma == Find(base_name, <<",">>)
    IN  IF first_comma # 0
        THEN Strip(SubSeq(base_name, 1, first_comma - 1))
        ELSE base_name

\* owid_country_codes: the name -> ISO3 table (the entries the tests name)
CountryCodes ==
    { <<<<"C","a","n","a","d","a">>, <<"C","A","N">>>>,
      <<<<"G","e","r","m","a","n","y">>, <<"D","E","U">>>>,
      <<<<"U","n","i","t","e","d"," ","S","t","a","t","e","s">>, <<"U","S","A">>>> }

get_iso3_from_country(name) ==
    IF \E e \in CountryCodes : e[1] = name
    THEN Some((CHOOSE e \in CountryCodes : e[1] = name)[2])
    ELSE NoneStr

get_country_from_iso3(iso3) ==
    IF \E e \in CountryCodes : e[2] = iso3
    THEN Some((CHOOSE e \in CountryCodes : e[2] = iso3)[1])
    ELSE NoneStr

Unclassified ==
    [type |-> "None", iso3 |-> NoneStr, indicator |-> <<>>, region |-> <<>>,
     start_year |-> 0, end_year |-> 0, year |-> 0]

GraphRecordSwapped(title, m) ==
    [Unclassified EXCEPT !.type = "graph", !.iso3 = Some(m.g3),
                         !.indicator = IndicatorOf(title),
                         !.start_year = ParseInt(m.g2), !.end_year = ParseInt(m.g1)]

\* what classify_and_parse_file returns on a GRAPH_PATTERN match
GraphRecord(title, m) ==
    [Unclassified EXCEPT !.type = "graph", !.iso3 = Some(m.g3),
                         !.indicator = IndicatorOf(title),
                         !.start_year = ParseInt(m.g1), !.end_year = ParseInt(m.g2)]

MapRecordNoTrim(title, m) ==
    [Unclassified EXCEPT !.type = "map", !.iso3 = get_iso3_from_country(m.g1),
                         !.region = m.g1, !.indicator = IndicatorOf(title),
                         !.year = ParseInt(m.g2)]

\* what classify_and_parse_file returns on a MAP_PATTERN match
MapRecord(title, m) ==
    LET region == Strip(m.g1)
    IN  [Unclassified EXCEPT !.type = "map", !.iso3 = get_iso3_from_country(region),
                             !.region = region, !.indicator = IndicatorOf(title),
                             !.year = ParseInt(m.g2)]

classify_and_parse_file(title) ==
    LET graph_match == GraphSearch(title)
        map_match == MapSearch(title)
    IN  IF graph_match.ok THEN GraphRecord(title, graph_match)
        ELSE IF map_match.ok THEN MapRecord(title, map_match)
        ELSE Unclassified

build_file_page_url(title) == S_WikiUrl \o Replace(title, <<" ">>, <<"_">>)

\* the entry process_files appends for a graph / for a map
GraphEntry(title, parsed) ==
    [title |-> title, indicator |-> parsed.indicator,
     start_year |-> parsed.start_year, end_year |-> parsed.end_year,
     file_page |-> build_file_page_url(title)]

MapEntry(title, parsed) ==
    [title |-> title, indicator |-> parsed.indicator, year |-> parsed.year,
     region |-> parsed.region, file_page |-> build_file_page_url(title)]

NewCountryCodeAsName(iso3) ==
    [iso3 |-> iso3,
     country |-> IF get_country_from_iso3(iso3).none THEN Some(iso3)
                 ELSE get_country_from_iso3(iso3),
     graphs |-> <<>>, maps |-> <<>>, unknowns |-> <<>>]

\* countries[iso3] as process_files creates it
NewCountry(iso3) ==
    [iso3 |-> iso3, country |-> get_country_from_iso3(iso3),
     graphs |-> <<>>, maps |-> <<>>, unknowns |-> <<>>]

ZeroAggStats == [graph_count |-> 0, map_count |-> 0, unknown_count |-> 0,
                 unresolved_region_count |-> 0]
EmptyAgg == [countries |-> <<>>, not_matched |-> <<>>, stats |-> ZeroAggStats]

FileParsedStripsPrefix(st, title, parsed) ==
    IF parsed.type = "None"
    THEN [st EXCEPT !.stats.unknown_count = @ + 1,
                    !.not_matched = Append(@, normalize_title(title))]
    ELSE IF ~Truthy(parsed.iso3)
    THEN [st EXCEPT !.stats.unresolved_region_count = @ + 1,
                    !.not_matched = Append(@, normalize_title(title))]
    ELSE LET iso3 == parsed.iso3.s
             cs == IF iso3 \in DOMAIN st.countries
                   THEN st.countries
                   ELSE st.countries @@ (iso3 :> NewCountry(iso3))
         IN  IF parsed.type = "graph"
             THEN [st EXCEPT
                     !.countries = [cs EXCEPT ![iso3].graphs =
                                       Append(@, GraphEntry(title, parsed))],
                     !.stats.graph_count = @ + 1]
             ELSE [st EXCEPT
                     !.countries = [cs EXCEPT ![iso3].maps =
                                       Append(@, MapEntry(title, parsed))],
                     !.stats.map_count = @ + 1]

FileParsedDropsRepeats(st, title, parsed) ==
    IF \E i \in DOMAIN st.not_matched : st.not_matched[i] = title THEN st ELSE
    IF parsed.type = "None"
    THEN [st EXCEPT !.stats.unknown_count = @ + 1,
                    !.not_matched = Append(@, title)]
    ELSE IF ~Truthy(parsed.iso3)
    THEN [st EXCEPT !.stats.unresolved_region_count = @ + 1,
                    !.not_matched = Append(@, title)]
    ELSE LET iso3 == parsed.iso3.s
             cs == IF iso3 \in DOMAIN st.countries
                   THEN st.countries
                   ELSE st.countries @@ (iso3 :> NewCountry(iso3))
         IN  IF parsed.type = "graph"
             THEN [st EXCEPT
                     !.countries = [cs EXCEPT ![iso3].graphs =
                                       Append(@, GraphEntry(title, parsed))],
                     !.stats.graph_count = @ + 1]
             ELSE [st EXCEPT
                     !.countries = [cs EXCEPT ![iso3].maps =
                                       Append(@, MapEntry(title, parsed))],
                     !.stats.map_count = @ + 1]

FileParsedPrepends(st, title, parsed) ==
    IF parsed.type = "None"
    THEN [st EXCEPT !.stats.unknown_count = @ + 1,
                    !.not_matched = <<title>> \o @]
    ELSE IF ~Truthy(parsed.iso3)
    THEN [st EXCEPT !.stats.unresolved_region_count = @ + 1,
                    !.not_matched = <<title>> \o @]
    ELSE LET iso3 == parsed.iso3.s
             cs == IF iso3 \in DOMAIN st.countries
                   THEN st.countries
                   ELSE st.countries @@ (iso3 :> NewCountry(iso3))
         IN  IF parsed.type = "graph"
             THEN [st EXCEPT
                     !.countries = [cs EXCEPT ![iso3].graphs =
                                       <<GraphEntry(title, parsed)>> \o @],
                     !.stats.graph_count = @ + 1]
             ELSE [st EXCEPT
                     !.countries = [cs EXCEPT ![iso3].maps =
                                       <<MapEntry(title, parsed)>> \o @],
                     !.stats.map_count = @ + 1]

\* the body of the loop of process_files once the title is classified
FileParsed(st, title, parsed) ==
    IF parsed.type = "None"
    THEN [st EXCEPT !.stats.unknown_count = @ + 1,
                    !.not_matched = Append(@, title)]
    ELSE IF ~Truthy(parsed.iso3)
    THEN [st EXCEPT !.stats.unresolved_region_count = @ + 1,
                    !.not_matched = Append(@, title)]
    ELSE LET iso3 == parsed.iso3.s
             cs == IF iso3 \in DOMAIN st.countries
                   THEN st.countries
                   ELSE st.countries @@ (iso3 :> NewCountry(iso3))
         IN  IF parsed.type = "graph"
             THEN [st EXCEPT
                     !.countries = [cs EXCEPT ![iso3].graphs =
                                       Append(@, GraphEntry(title, parsed))],
                     !.stats.graph_count = @ + 1]
             ELSE [st EXCEPT
                     !.countries = [cs EXCEPT ![iso3].maps =
                                       Append(@, MapEntry(title, parsed))],
                     !.stats.map_count = @ + 1]

ProcessTitleStopAtUnknown(st, title) ==
    IF st.stats.unknown_count > 0
    THEN [st EXCEPT !.stats.unknown_count = @ + 1,
                    !.not_matched = Append(@, title)]
    ELSE FileParsed(st, title, classify_and_parse_file(title))

\* one pass of the loop of process_files over one title
ProcessTitle(st, title) == FileParsed(st, title, classify_and_parse_file(title))

RECURSIVE ProcessFrom(_, _, _)
ProcessFrom(st, titles, i) ==
    IF i > Len(titles) THEN st
    ELSE ProcessFrom(ProcessTitle(st, titles[i]), titles, i + 1)

\* process_files(files): what it has built when the loop is over
process_files(titles) == ProcessFrom(EmptyAgg, titles, 1)

IdleAgg ==
    /\ files = <<>>
    /\ idx = 0
    /\ countries = <<>>
    /\ not_matched = <<>>
    /\ stats = ZeroAggStats

(***************************************************************************)
(* Inputs of the edit driver: one file page, its text drawn from bodies,   *)
(* category links in several spellings and trailing whitespace.            *)
(***************************************************************************)
PageA == <<"F","i","l","e",":","A">>
N_Ab == <<"A","b">>
N_ab == <<"a","b">>
N_AB == <<"A","B">>

EditBodies == { <<>>, <<"x">> }
EditLinks ==
    { <<>>,
      Link(S_Category, N_Ab), Link(S_category, N_Ab),
      Link(S_Category, N_ab), Link(S_category, N_ab),
      Link(S_Category, N_AB),
      Link(<<"C","A","T","E","G","O","R","Y",":">>, N_Ab),
      Link(<<>>, N_Ab),
      Link(S_Category, N_Ab \o <<"c">>) }
EditTrails == { <<>>, <<"\n">>, <<" ","\n","\n">> }
EditTexts == { b \o l \o t : b \in EditBodies, l \in EditLinks, t \in EditTrails }
EditCategories == { S_Category \o N_Ab, S_Category \o N_ab }

AbsentPage == [exists |-> FALSE, text |-> <<>>]
NoCheck == [called |-> FALSE, page_text |-> NoneStr, category |-> <<>>, result |-> FALSE]

IdleEdit ==
    /\ wiki = [t \in {PageA} |-> AbsentPage]
    /\ wiki0 = wiki
    /\ op = IdleOp
    /\ saves = <<>>
    /\ calls = 0
    /\ events = <<>>

NoClassify == [called |-> FALSE]
NoName == [called |-> FALSE]
NoFetch == [pc |-> "off"]
IdleFetch == fm = NoFetch /\ fcm = NoFetch
IdleRace == ops = <<>> /\ order = <<>>
IdlePure == lastCheck = NoCheck /\ cls = NoClassify /\ named = NoName

(***************************************************************************)
(* Steps of add_category_to_page (shared by the driver and the run).       *)
(***************************************************************************)
AddPage ==
    /\ op.pc = "page"
    /\ op' = AddPageStep(op, wiki)
    /\ UNCHANGED <<wiki, wiki0, saves, calls, events>>

AddRead ==
    /\ op.pc = "text"
    /\ op' = AddReadStep(op, wiki)
    /\ UNCHANGED <<wiki, wiki0, saves, calls, events>>

AddSave ==
    /\ op.pc = "save"
    /\ wiki' = [wiki EXCEPT ![op.title] = SavedPage(op.new_text)]
    /\ saves' = Append(saves, SaveEntry(op.title, op.new_text, AddSummary(op.category)))
    /\ events' = Append(events, "save")
    /\ op' = AddSaveStep(op)
    /\ UNCHANGED <<wiki0, calls>>

(***************************************************************************)
(* run_continents.py: main and process_continent_file.                     *)
(***************************************************************************)
ZeroStats == [added |-> 0, skipped |-> 0, errors |-> 0]
ZeroTotals == [added |-> 0, skipped |-> 0, errors |-> 0,
               continents_processed |-> 0, continents_skipped |-> 0]
IdlePcf == [pc |-> "idle", stats |-> ZeroStats, continent |-> <<>>, graphs |-> <<>>,
            category |-> <<>>, gidx |-> 0]
NoArgs == [dry_run |-> FALSE, limit |-> 0, files_per_continent |-> 0,
           credentials |-> FALSE, dir_exists |-> FALSE]

IdleRun ==
    /\ args = NoArgs
    /\ continent_files = <<>>
    /\ mpc = "off"
    /\ fidx = 0
    /\ total_stats = ZeroTotals
    /\ pcf = IdlePcf

Min(a, b) == IF a <= b THEN a ELSE b

\* seq[:n]
Take(seq, n) == SubSeq(seq, 1, Min(n, Len(seq)))

\* main, from load_credentials to the start of the loop over continent_files
MainStart ==
    /\ mpc = "start"
    /\ IF ~args.credentials \/ ~args.dir_exists \/ continent_files = <<>>
       THEN /\ mpc' = "exit"
            /\ UNCHANGED <<continent_files, fidx>>
       ELSE /\ continent_files' = IF args.limit # 0
                                  THEN Take(continent_files, args.limit)
                                  ELSE continent_files
            /\ fidx' = 1
            /\ mpc' = "loop"
    /\ total_stats' = ZeroTotals
    /\ UNCHANGED <<args, pcf, editVars>>

\* for file_path in continent_files: the call of process_continent_file
MainNextFile ==
    /\ mpc = "loop"
    /\ pcf.pc = "idle"
    /\ fidx <= Len(continent_files)
    /\ pcf' = [IdlePcf EXCEPT !.pc = "load"]
    /\ UNCHANGED <<args, continent_files, mpc, fidx, total_stats, editVars>>

PcfLoadedNoErrorCount(p, data, w, files_per_continent) ==
    IF ~data.loaded \/ data.continent = <<>>
    THEN [p EXCEPT !.pc = "return"]
    ELSE LET category == build_category_name(data.continent, "continent", S_graphs)
             current_member_count == get_category_member_count(w, category)
         IN  IF files_per_continent # 0 /\ current_member_count >= files_per_continent
             THEN [p EXCEPT !.pc = "return", !.continent = data.continent,
                            !.category = category]
             ELSE [p EXCEPT !.pc = "ensure", !.continent = data.continent,
                            !.category = category, !.gidx = 1,
                            !.graphs = IF files_per_continent # 0
                                       THEN Take(data.graphs, files_per_continent)
                                       ELSE data.graphs]

\* the state of process_continent_file after it has loaded the entity file,
\* built the category and looked at files_per_continent
PcfLoaded(p, data, w, files_per_continent) ==
    IF ~data.loaded \/ data.continent = <<>>
    THEN [p EXCEPT !.stats.errors = @ + 1, !.pc = "return"]
    ELSE LET category == build_category_name(data.continent, "continent", S_graphs)
             current_member_count == get_category_member_count(w, category)
         IN  IF files_per_continent # 0 /\ current_member_count >= files_per_continent
             THEN [p EXCEPT !.pc = "return", !.continent = data.continent,
                            !.category = category]
             ELSE [p EXCEPT !.pc = "ensure", !.continent = data.continent,
                            !.category = category, !.gidx = 1,
                            !.graphs = IF files_per_continent # 0
                                       THEN Take(data.graphs, files_per_continent)
                                       ELSE data.graphs]

PcfLoad ==
    /\ pcf.pc = "load"
    /\ pcf' = PcfLoaded(pcf, continent_files[fidx], wiki, args.files_per_continent)
    /\ UNCHANGED <<args, continent_files, mpc, fidx, total_stats, editVars>>

\* ensure_category_exists(site, category, parent_category, continent, dry_run)
PcfEnsure ==
    /\ pcf.pc = "ensure"
    /\ IF EnsureSaves(wiki, pcf.category, args.dry_run)
       THEN LET category_content ==
                    EnsureContent(get_parent_category("continent"), pcf.continent)
            IN  /\ wiki' = [wiki EXCEPT ![pcf.category] = SavedPage(category_content)]
                /\ saves' = Append(saves, SaveEntry(pcf.category, category_content,
                                                    S_CreateSummary))
                /\ events' = Append(events, "save")
       ELSE UNCHANGED <<wiki, saves, events>>
    /\ pcf' = [pcf EXCEPT !.pc = "graphs"]
    /\ UNCHANGED <<wiki0, op, calls, args, continent_files, mpc, fidx, total_stats>>

\* for graph in graphs: the title check and the call of add_category_to_page
PcfGraph ==
    /\ pcf.pc = "graphs"
    /\ IF pcf.gidx > Len(pcf.graphs)
       THEN /\ pcf' = [pcf EXCEPT !.pc = "return"]
            /\ op' = op
       ELSE IF pcf.graphs[pcf.gidx] = <<>>
       THEN /\ pcf' = [pcf EXCEPT !.stats.errors = @ + 1, !.gidx = @ + 1]
            /\ op' = op
       ELSE /\ pcf' = [pcf EXCEPT !.pc = "adding"]
            /\ op' = NewOp(pcf.graphs[pcf.gidx], pcf.category, args.dry_run)
    /\ UNCHANGED <<wiki, wiki0, saves, calls, events,
                   args, continent_files, mpc, fidx, total_stats>>

PcfCountedStopAtFalse(p, result) ==
    IF result = "True"
    THEN [p EXCEPT !.stats.added = @ + 1, !.gidx = @ + 1, !.pc = "graphs"]
    ELSE [p EXCEPT !.stats.skipped = @ + 1, !.gidx = @ + 1, !.pc = "return"]

\* the count of the call's result and the rate-limiting sleep
PcfCounted(p, result) ==
    IF result = "True"
    THEN [p EXCEPT !.stats.added = @ + 1, !.gidx = @ + 1, !.pc = "graphs"]
    ELSE [p EXCEPT !.stats.skipped = @ + 1, !.gidx = @ + 1, !.pc = "graphs"]

PcfAfterAdd ==
    /\ pcf.pc = "adding"
    /\ op.pc = "done"
    /\ pcf' = PcfCounted(pcf, op.result)
    /\ op' = IdleOp
    /\ events' = IF ~args.dry_run THEN Append(events, "sleep") ELSE events
    /\ UNCHANGED <<wiki, wiki0, saves, calls,
                   args, continent_files, mpc, fidx, total_stats>>

\* main's accounting of one process_continent_file result
Accumulate(t, file_stats) ==
    IF file_stats.added = 0 /\ file_stats.skipped = 0 /\ file_stats.errors = 0
    THEN [t EXCEPT !.continents_skipped = @ + 1]
    ELSE [t EXCEPT !.added = @ + file_stats.added,
                   !.skipped = @ + file_stats.skipped,
                   !.errors = @ + file_stats.errors,
                   !.continents_processed = @ + 1]

MainAccumulate ==
    /\ mpc = "loop"
    /\ pcf.pc = "return"
    /\ total_stats' = Accumulate(total_stats, pcf.stats)
    /\ fidx' = fidx + 1
    /\ pcf' = [pcf EXCEPT !.pc = "idle"]
    /\ UNCHANGED <<args, continent_files, mpc, editVars>>

\* the loop is over: the final summary
MainSummary ==
    /\ mpc = "loop"
    /\ pcf.pc = "idle"
    /\ fidx > Len(continent_files)
    /\ mpc' = "summary"
    /\ UNCHANGED <<args, continent_files, fidx, total_stats, pcf, editVars>>

(***************************************************************************)
(* Spec: one run of main over up to MaxEntityFiles entity files.           *)
(***************************************************************************)
S_Africa == <<"A","f","r","i","c","a">>
S_Asia == <<"A","s","i","a">>
PageB == <<"F","i","l","e",":","B">>
CatAfrica == build_category_name(S_Africa, "continent", S_graphs)
CatAsia == build_category_name(S_Asia, "continent", S_graphs)

EntityFile(continent, graphs) == [loaded |-> TRUE, continent |-> continent, graphs |-> graphs]
EntityFiles ==
    { [loaded |-> FALSE, continent |-> <<>>, graphs |-> <<>>],
      EntityFile(<<>>, <<PageA>>),
      EntityFile(S_Africa, <<PageA, PageB>>),
      EntityFile(S_Africa, <<PageA, PageA>>),
      EntityFile(S_Asia, <<<<>>, PageB>>) }

SeqsUpTo(S, n) == UNION { [1..k -> S] : k \in 0..n }

RunFileTexts == { <<"x">>, <<"x"," ","\n">>, <<"x","\n">> \o Link(<<>>, CatAfrica) \o S_NL }
RunWikis ==
    { [t \in {PageA, PageB, CatAfrica, CatAsia} |->
          IF t = PageA THEN a ELSE IF t = PageB THEN b
          ELSE IF t = CatAfrica THEN caf ELSE cas] :
      a \in {AbsentPage} \cup {SavedPage(x) : x \in RunFileTexts},
      b \in {AbsentPage, SavedPage(<<"x">>)},
      caf \in {AbsentPage, SavedPage(<<>>)},
      cas \in {AbsentPage, SavedPage(<<>>)} }

Init ==
    /\ wiki \in RunWikis
    /\ wiki0 = wiki
    /\ op = IdleOp
    /\ saves = <<>>
    /\ calls = 0
    /\ events = <<>>
    /\ IdlePure
    /\ IdleAgg
    /\ IdleFetch
    /\ IdleRace
    /\ \/ /\ args \in { [NoArgs EXCEPT !.credentials = c, !.dir_exists = d] :
                          c \in BOOLEAN, d \in BOOLEAN }
          /\ continent_files = <<EntityFile(S_Africa, <<PageA, PageB>>)>>
       \/ /\ args \in [dry_run : BOOLEAN, limit : {0, 1}, files_per_continent : {0, 1, 2},
                       credentials : {TRUE}, dir_exists : {TRUE}]
          /\ continent_files \in SeqsUpTo(EntityFiles, MaxEntityFiles)
    /\ mpc = "start"
    /\ fidx = 0
    /\ total_stats = ZeroTotals
    /\ pcf = IdlePcf

Next ==
    \/ MainStart /\ UNCHANGED <<pureVars, aggVars, fetchVars, raceVars>>
    \/ MainNextFile /\ UNCHANGED <<pureVars, aggVars, fetchVars, raceVars>>
    \/ PcfLoad /\ UNCHANGED <<pureVars, aggVars, fetchVars, raceVars>>
    \/ PcfEnsure /\ UNCHANGED <<pureVars, aggVars, fetchVars, raceVars>>
    \/ PcfGraph /\ UNCHANGED <<pureVars, aggVars, fetchVars, raceVars>>
    \/ AddPage /\ UNCHANGED <<pureVars, runVars, aggVars, fetchVars, raceVars>>
    \/ AddRead /\ UNCHANGED <<pureVars, runVars, aggVars, fetchVars, raceVars>>
    \/ AddSave /\ UNCHANGED <<pureVars, runVars, aggVars, fetchVars, raceVars>>
    \/ PcfAfterAdd /\ UNCHANGED <<pureVars, aggVars, fetchVars, raceVars>>
    \/ MainAccumulate /\ UNCHANGED <<pureVars, aggVars, fetchVars, raceVars>>
    \/ MainSummary /\ UNCHANGED <<pureVars, aggVars, fetchVars, raceVars>>

Spec == Init /\ [][Next]_vars

(***************************************************************************)
(* SpecAccount: runs of main over entity files that include one whose      *)
(* graphs list is empty, with and without --files-per-continent.           *)
(***************************************************************************)
AccountFiles ==
    { [loaded |-> FALSE, continent |-> <<>>, graphs |-> <<>>],
      EntityFile(S_Asia, <<>>),
      EntityFile(S_Africa, <<PageA, PageB>>) }

AccountWikis ==
    { [t \in {PageA, PageB, CatAfrica, CatAsia} |->
          IF t = PageA THEN a ELSE IF t = PageB THEN SavedPage(<<"x">>)
          ELSE IF t = CatAfrica THEN caf ELSE AbsentPage] :
      a \in { SavedPage(<<"x">>), SavedPage(<<"x","\n">> \o Link(<<>>, CatAfrica) \o S_NL) },
      caf \in {AbsentPage, SavedPage(<<>>)} }

InitAccount ==
    /\ wiki \in AccountWikis
    /\ wiki0 = wiki
    /\ op = IdleOp
    /\ saves = <<>>
    /\ calls = 0
    /\ events = <<>>
    /\ IdlePure
    /\ IdleAgg
    /\ IdleFetch
    /\ IdleRace
    /\ args \in [dry_run : BOOLEAN, limit : {0}, files_per_continent : {0, 1},
                 credentials : {TRUE}, dir_exists : {TRUE}]
    /\ continent_files \in SeqsUpTo(AccountFiles, MaxEntityFiles)
    /\ mpc = "start"
    /\ fidx = 0
    /\ total_stats = ZeroTotals
    /\ pcf = IdlePcf

SpecAccount == InitAccount /\ [][Next]_vars

(***************************************************************************)
(* SpecEdit: a caller makes up to MaxCalls add_category_to_page calls on   *)
(* one page, each with any category and either dry_run value.              *)
(***************************************************************************)
InitEdit ==
    /\ wiki \in [{PageA} -> {AbsentPage} \cup {SavedPage(t) : t \in EditTexts}]
    /\ wiki0 = wiki
    /\ op = IdleOp
    /\ saves = <<>>
    /\ calls = 0
    /\ events = <<>>
    /\ IdlePure
    /\ IdleRun
    /\ IdleAgg
    /\ IdleFetch
    /\ IdleRace

EditCall ==
    /\ op.pc \in {"idle", "done"}
    /\ calls < MaxCalls
    /\ \E category \in EditCategories, dry_run \in BOOLEAN :
          op' = NewOp(PageA, category, dry_run)
    /\ calls' = calls + 1
    /\ UNCHANGED <<wiki, wiki0, saves, events>>

NextEdit ==
    \/ EditCall /\ UNCHANGED <<pureVars, runVars, aggVars, fetchVars, raceVars>>
    \/ AddPage /\ UNCHANGED <<pureVars, runVars, aggVars, fetchVars, raceVars>>
    \/ AddRead /\ UNCHANGED <<pureVars, runVars, aggVars, fetchVars, raceVars>>
    \/ AddSave /\ UNCHANGED <<pureVars, runVars, aggVars, fetchVars, raceVars>>

SpecEdit == InitEdit /\ [][NextEdit]_vars

(***************************************************************************)
(* SpecPresent: category_exists_on_page called directly on any page text   *)
(* (None and the empty text included) and any category.                    *)
(***************************************************************************)
PresentTexts == {NoneStr} \cup {Some(t) : t \in EditTexts}

InitPresent ==
    /\ IdleEdit
    /\ IdleRun
    /\ IdleAgg
    /\ IdleFetch
    /\ IdleRace
    /\ cls = NoClassify
    /\ named = NoName
    /\ lastCheck \in { [NoCheck EXCEPT !.page_text = t, !.category = c] :
                          t \in PresentTexts, c \in EditCategories }

PresentCall ==
    /\ ~lastCheck.called
    /\ lastCheck' = [lastCheck EXCEPT
                        !.called = TRUE,
                        !.result = category_exists_on_page(lastCheck.page_text,
                                                           lastCheck.category)]
    /\ UNCHANGED <<cls, named>>
    /\ UNCHANGED <<editVars, runVars, aggVars, fetchVars, raceVars>>

NextPresent == PresentCall

SpecPresent == InitPresent /\ [][NextPresent]_vars

(***************************************************************************)
(* SpecClassify: classify_and_parse_file called on a title put together    *)
(* from an indicator, a locator in either grammar and an extension.        *)
(***************************************************************************)
T_Indicators == { <<"G","D","P">>, <<"G","D","P"," ">>, <<" ","A","i","d"," ","t","o"," ","x">>, <<>> }
T_Gaps == { <<>>, <<" ">> }
T_Years == { [digits |-> <<"1","9","9","7">>, value |-> 1997], [digits |-> <<"0","7">>, value |-> 7],
             [digits |-> <<"2","0","2","1">>, value |-> 2021] }
T_Codes == { <<"C","A","N">>, <<"c","a","n">>, <<"C","a">>, <<"X","_","1">> }
T_Regions == { <<"C","a","n","a","d","a">>, <<"U","n","i","t","e","d"," ","S","t","a","t","e","s">>, <<"C","a","n","a","d","a"," ">>, <<"A","f","r","i","c","a">>, <<"A","t","l","a","n","t","i","s">>, <<"c","a","n","a","d","a">>, <<"G","u","i","n","e","a","-","B","i","s","s","a","u">> }
T_Exts == { S_svg, <<".","p","n","g">> }
T_Prefixes == { <<>>, S_File }

NoParts == [kind |-> "other", indicator |-> <<>>, y1 |-> 0, y2 |-> 0, code |-> <<>>,
            region |-> <<>>, ext |-> <<>>]

RangeTitles ==
    { [title |-> p \o i \o <<",">> \o g \o a.digits \o <<" ">> \o S_to \o <<" ">>
                   \o b.digits \o <<",">> \o g \o c \o e,
       parts |-> [NoParts EXCEPT !.kind = "range", !.indicator = i, !.y1 = a.value,
                                 !.y2 = b.value, !.code = c, !.ext = e]] :
      p \in T_Prefixes, i \in T_Indicators, g \in T_Gaps, a \in T_Years, b \in T_Years,
      c \in T_Codes, e \in T_Exts }

SingleTitles ==
    { [title |-> p \o i \o <<",">> \o g \o r \o <<",">> \o g \o a.digits \o e,
       parts |-> [NoParts EXCEPT !.kind = "single", !.indicator = i, !.y1 = a.value,
                                 !.region = r, !.ext = e]] :
      p \in T_Prefixes, i \in T_Indicators, g \in T_Gaps, r \in T_Regions, a \in T_Years,
      e \in T_Exts }

OtherTitles ==
    { [title |-> t, parts |-> NoParts] : t \in { <<"F","i","l","e",":","S","o","m","e"," ","o","t","h","e","r"," ","f","i","l","e",".","p","n","g">>, <<"x",","," ","y",".","s","v","g">> } }

ClassifyInputs == RangeTitles \cup SingleTitles \cup OtherTitles

InitClassify ==
    /\ IdleEdit
    /\ IdleRun
    /\ IdleAgg
    /\ IdleFetch
    /\ IdleRace
    /\ lastCheck = NoCheck
    /\ named = NoName
    /\ cls \in { [called |-> FALSE, title |-> x.title, parts |-> x.parts,
                  result |-> Unclassified] : x \in ClassifyInputs }

ClassifyCall ==
    /\ ~cls.called
    /\ cls' = [cls EXCEPT !.called = TRUE, !.result = classify_and_parse_file(cls.title)]
    /\ UNCHANGED <<lastCheck, named>>
    /\ UNCHANGED <<editVars, runVars, aggVars, fetchVars, raceVars>>

NextClassify == ClassifyCall

SpecClassify == InitClassify /\ [][NextClassify]_vars

(***************************************************************************)
(* SpecPatterns: classify_and_parse_file called on every title that can be *)
(* put together from the pieces both patterns are made of: commas, blanks, *)
(* digits, capitals and the word "to", in any order, before the last comma *)
(* and a last field, as well as on the titles of SpecClassify.             *)
(***************************************************************************)
PatternPieces == { <<>>, <<" ">>, <<"1">>, <<"A">>, S_to, <<",">> }
PatternLastFields == { <<"1">>, <<"A">>, <<" ","1">>, <<"A","1">> }
PatternTitles ==
    { [title |-> <<"x", ",">> \o a \o b \o c \o d \o e \o <<",">> \o f \o S_svg,
       parts |-> NoParts] :
      a \in PatternPieces, b \in PatternPieces, c \in PatternPieces,
      d \in PatternPieces, e \in PatternPieces, f \in PatternLastFields }

InitPatterns ==
    /\ IdleEdit
    /\ IdleRun
    /\ IdleAgg
    /\ IdleFetch
    /\ IdleRace
    /\ lastCheck = NoCheck
    /\ named = NoName
    /\ cls \in { [called |-> FALSE, title |-> x.title, parts |-> x.parts,
                  result |-> Unclassified] : x \in PatternTitles \cup ClassifyInputs }

SpecPatterns == InitPatterns /\ [][NextClassify]_vars

(***************************************************************************)
(* SpecAgg: process_files over a list of up to MaxTitles titles.           *)
(***************************************************************************)
AggTitles ==
    { <<"F","i","l","e",":","G",","," ","1","9","9","0"," ","t","o"," ","2","0","0","0",","," ","C","A","N",".","s","v","g">>,
      <<"H",","," ","2"," ","t","o"," ","1",","," ","C","A","N",".","s","v","g">>,
      <<"F","i","l","e",":","M",","," ","C","a","n","a","d","a",","," ","1","9","9","0",".","s","v","g">>,
      <<"F","i","l","e",":","M",","," ","A","f","r","i","c","a",","," ","2","0","1","5",".","s","v","g">>,
      <<"F","i","l","e",":","M",","," ","A","t","l","a","n","t","i","s",","," ","1","9","9","0",".","s","v","g">>,
      <<"F","i","l","e",":","o","t","h","e","r",".","p","n","g">>,
      <<"F","i","l","e",":","G",","," ","1","9","9","0"," ","t","o"," ","2","0","0","0",","," ","c","a","n",".","s","v","g">>,
      <<"F","i","l","e",":","G",","," ","1"," ","t","o"," ","2",","," ","X","Y","Z",".","s","v","g">> }

InitAgg ==
    /\ IdleEdit
    /\ IdleRun
    /\ IdlePure
    /\ IdleFetch
    /\ IdleRace
    /\ files \in SeqsUpTo(AggTitles, MaxTitles)
    /\ idx = 1
    /\ countries = <<>>
    /\ not_matched = <<>>
    /\ stats = ZeroAggStats

\* the loop's variables after one pass
AggAssign(st) ==
    /\ countries' = st.countries
    /\ not_matched' = st.not_matched
    /\ stats' = st.stats

\* for title in files: one pass of the loop
AggStep ==
    /\ idx <= Len(files)
    /\ AggAssign(ProcessTitle([countries |-> countries, not_matched |-> not_matched,
                               stats |-> stats], files[idx]))
    /\ idx' = idx + 1
    /\ UNCHANGED <<files, editVars, runVars, pureVars, fetchVars, raceVars>>

NextAgg == AggStep

SpecAgg == InitAgg /\ [][NextAgg]_vars

(***************************************************************************)
(* SpecFail: the run of main again, where a page.save may raise.  Nothing  *)
(* in add_category_to_page, process_continent_file or main catches the     *)
(* exception, so it ends the process.                                      *)
(***************************************************************************)
\* page.save(new_text, summary=edit_summary) raises
AddSaveRaises ==
    /\ mpc = "loop"
    /\ op.pc = "save"
    /\ op' = [op EXCEPT !.pc = "raised"]
    /\ mpc' = "raised"
    /\ UNCHANGED <<wiki, wiki0, saves, calls, events,
                   args, continent_files, fidx, total_stats, pcf>>

NextFail ==
    \/ Next
    \/ AddSaveRaises /\ UNCHANGED <<pureVars, aggVars, fetchVars, raceVars>>

\* main is a sequential program: it takes its next step as long as it has one
SpecFail == Init /\ [][NextFail]_vars /\ WF_vars(NextFail)

(***************************************************************************)
(* fetch_commons_files.py: get_category_members_petscan, the writers and   *)
(* main.  SpecFetch is one run of main; the answer PetScan gives to the    *)
(* one request is chosen at the start.                                     *)
(***************************************************************************)
MaxLines == 2

\* text.splitlines(), for texts whose only line break is "\n"
RECURSIVE SplitLines(_)
SplitLines(text) ==
    IF text = <<>> THEN <<>>
    ELSE IF Find(text, S_NL) = 0 THEN <<text>>
    ELSE <<SubSeq(text, 1, Find(text, S_NL) - 1)>>
            \o SplitLines(SubSeq(text, Find(text, S_NL) + 1, Len(text)))

StripAll(lines) == [i \in DOMAIN lines |-> Strip(lines[i])]

\* get_category_members_petscan: what it returns for the answer to its request
get_category_members_petscan(response) ==
    IF response.kind = "error" THEN <<>>
    ELSE IF response.text = <<>> THEN <<>>
    ELSE StripAll(SplitLines(response.text))

\* the order of str on the characters an ISO3 key can hold
CodePoints == Digits \o UpperAlpha \o <<"_">> \o LowerAlpha
Ord(c) == CHOOSE i \in DOMAIN CodePoints : CodePoints[i] = c

RECURSIVE StrLess(_, _)
StrLess(a, b) ==
    IF b = <<>> THEN FALSE
    ELSE IF a = <<>> THEN TRUE
    ELSE IF a[1] # b[1] THEN Ord(a[1]) < Ord(b[1])
    ELSE StrLess(Tail(a), Tail(b))

\* sorted(keys)
Sorted(keys) ==
    CHOOSE q \in [1..Cardinality(keys) -> keys] :
        \A i, j \in DOMAIN q : i < j => StrLess(q[i], q[j])

SummaryRow(data) ==
    [iso3 |-> data.iso3, country |-> data.country,
     graph_count |-> Len(data.graphs), map_count |-> Len(data.maps)]

\* the list write_summary_json dumps
SummaryRows(cs) ==
    [i \in 1..Cardinality(DOMAIN cs) |-> SummaryRow(cs[Sorted(DOMAIN cs)[i]])]

NoFile == [written |-> FALSE, content |-> <<>>]
WrittenFile(content) == [written |-> TRUE, content |-> content]

FmStart(response) ==
    [pc |-> "petscan", response |-> response, requests |-> 0, files |-> <<>>,
     countries |-> <<>>, not_matched |-> <<>>,
     country_files |-> <<>>, summary |-> NoFile, not_matched_file |-> NoFile]

\* files = get_category_members_petscan(CATEGORY_NAME)
FmPetscan ==
    /\ fm.pc = "petscan"
    /\ fm' = [fm EXCEPT !.requests = @ + 1,
                        !.files = get_category_members_petscan(fm.response),
                        !.pc = "process"]
    /\ UNCHANGED fcm

FmProcessed(f, r) ==
    [f EXCEPT !.countries = r.countries, !.not_matched = r.not_matched,
              !.pc = "write_countries"]

\* countries, not_matched = process_files(files)
FmProcess ==
    /\ fm.pc = "process"
    /\ fm' = FmProcessed(fm, process_files(fm.files))
    /\ UNCHANGED fcm

\* write_country_json_files(countries): one file per key
FmWriteCountries ==
    /\ fm.pc = "write_countries"
    /\ fm' = [fm EXCEPT !.country_files = fm.countries, !.pc = "write_summary"]
    /\ UNCHANGED fcm

\* write_summary_json(countries)
FmWriteSummary ==
    /\ fm.pc = "write_summary"
    /\ fm' = [fm EXCEPT !.summary = WrittenFile(SummaryRows(fm.countries)),
                        !.pc = "write_not_matched"]
    /\ UNCHANGED fcm

\* write_not_matched_files(not_matched), and the end of main
FmWriteNotMatched ==
    /\ fm.pc = "write_not_matched"
    /\ fm' = [fm EXCEPT !.not_matched_file =
                            IF fm.not_matched = <<>> THEN @
                            ELSE WrittenFile(fm.not_matched),
                        !.pc = "done"]
    /\ UNCHANGED fcm

FmLines ==
    { <<"F","i","l","e",":","G",","," ","1","9","9","0"," ","t","o"," ","2","0","0","0",","," ","C","A","N",".","s","v","g">>, <<"F","i","l","e",":","M",","," ","C","a","n","a","d","a",","," ","1","9","9","0",".","s","v","g">>,
      <<"F","i","l","e",":","o","t","h","e","r",".","p","n","g">>, <<" ","F","i","l","e",":","G",","," ","1"," ","t","o"," ","2",","," ","X","Y","Z",".","s","v","g"," ">>, <<"F","i","l","e",":","G",","," ","2"," ","t","o"," ","3",","," ","c","a","n",".","s","v","g">> }

RECURSIVE JoinLines(_)
JoinLines(lines) ==
    IF lines = <<>> THEN <<>>
    ELSE IF Len(lines) = 1 THEN lines[1]
    ELSE lines[1] \o S_NL \o JoinLines(Tail(lines))

FmTexts ==
    {<<>>} \cup { JoinLines(q) \o tail :
                  q \in SeqsUpTo(FmLines, MaxLines) \ {<<>>}, tail \in {<<>>, S_NL} }

FmResponses ==
    {[kind |-> "error", text |-> <<>>]} \cup { [kind |-> "ok", text |-> t] : t \in FmTexts }

InitFetch ==
    /\ IdleEdit
    /\ IdleRun
    /\ IdlePure
    /\ IdleAgg
    /\ IdleRace
    /\ fcm = NoFetch
    /\ fm \in { FmStart(r) : r \in FmResponses }

NextFetch ==
    \/ FmPetscan /\ UNCHANGED <<editVars, pureVars, runVars, aggVars, raceVars>>
    \/ FmProcess /\ UNCHANGED <<editVars, pureVars, runVars, aggVars, raceVars>>
    \/ FmWriteCountries /\ UNCHANGED <<editVars, pureVars, runVars, aggVars, raceVars>>
    \/ FmWriteSummary /\ UNCHANGED <<editVars, pureVars, runVars, aggVars, raceVars>>
    \/ FmWriteNotMatched /\ UNCHANGED <<editVars, pureVars, runVars, aggVars, raceVars>>

SpecFetch == InitFetch /\ [][NextFetch]_vars

(***************************************************************************)
(* categorize/category_members.py: fetch_category_members.  SpecList is    *)
(* one call; the pages the API serves are chosen at the start, and each    *)
(* request either is answered or raises requests.RequestException.         *)
(***************************************************************************)
MaxPages == 3
initial_delay == 1
max_delay == 8

FcmStart(served) ==
    [pc |-> "request", served |-> served, cmcontinue |-> 0, all_files |-> <<>>,
     page_count |-> 0, delay |-> initial_delay, failures |-> 0,
     requested |-> <<>>, sleeps |-> <<>>]

\* the page a request asks for: the first without cmcontinue, else the one
\* the token names
PageAsked(f) == IF f.cmcontinue = 0 THEN 1 ELSE f.cmcontinue

FcmAnsweredResetsDelay(f) ==
    IF PageAsked(f) < Len(f.served)
    THEN [f EXCEPT !.all_files = @ \o f.served[PageAsked(f)],
                   !.page_count = @ + 1,
                   !.requested = Append(@, PageAsked(f)),
                   !.cmcontinue = PageAsked(f) + 1,
                   !.delay = initial_delay,
                   !.sleeps = Append(@, initial_delay)]
    ELSE [f EXCEPT !.all_files = @ \o f.served[PageAsked(f)],
                   !.page_count = @ + 1,
                   !.requested = Append(@, PageAsked(f)),
                   !.pc = "returned"]

\* the try block went through: the page's titles are added; with a
\* "continue" in the answer the token is kept and the loop sleeps, without
\* one the loop breaks and all_files is returned
FcmAnswered(f) ==
    IF PageAsked(f) < Len(f.served)
    THEN [f EXCEPT !.all_files = @ \o f.served[PageAsked(f)],
                   !.page_count = @ + 1,
                   !.requested = Append(@, PageAsked(f)),
                   !.cmcontinue = PageAsked(f) + 1,
                   !.sleeps = Append(@, f.delay)]
    ELSE [f EXCEPT !.all_files = @ \o f.served[PageAsked(f)],
                   !.page_count = @ + 1,
                   !.requested = Append(@, PageAsked(f)),
                   !.pc = "returned"]

FcmFailedAddsPage(f) ==
    IF f.delay < max_delay
    THEN [f EXCEPT !.failures = @ + 1,
                   !.requested = Append(@, PageAsked(f)),
                   !.all_files = @ \o f.served[PageAsked(f)],
                   !.delay = Min(f.delay * 2, max_delay),
                   !.sleeps = Append(@, Min(f.delay * 2, max_delay))]
    ELSE [f EXCEPT !.failures = @ + 1,
                   !.requested = Append(@, PageAsked(f)),
                   !.all_files = <<>>,
                   !.pc = "raised"]

FcmFailedRaisesEarly(f) ==
    IF f.delay * 2 < max_delay
    THEN [f EXCEPT !.failures = @ + 1,
                   !.requested = Append(@, PageAsked(f)),
                   !.delay = Min(f.delay * 2, max_delay),
                   !.sleeps = Append(@, Min(f.delay * 2, max_delay))]
    ELSE [f EXCEPT !.failures = @ + 1,
                   !.requested = Append(@, PageAsked(f)),
                   !.all_files = <<>>,
                   !.pc = "raised"]

\* except requests.RequestException: double the delay, sleep and try again
\* while delay < max_delay, else raise (all_files is lost with the frame)
FcmFailed(f) ==
    IF f.delay < max_delay
    THEN [f EXCEPT !.failures = @ + 1,
                   !.requested = Append(@, PageAsked(f)),
                   !.delay = Min(f.delay * 2, max_delay),
                   !.sleeps = Append(@, Min(f.delay * 2, max_delay))]
    ELSE [f EXCEPT !.failures = @ + 1,
                   !.requested = Append(@, PageAsked(f)),
                   !.all_files = <<>>,
                   !.pc = "raised"]

FcmRequestAnswered ==
    /\ fcm.pc = "request"
    /\ fcm' = FcmAnswered(fcm)
    /\ UNCHANGED fm

FcmRequestFails ==
    /\ fcm.pc = "request"
    /\ fcm' = FcmFailed(fcm)
    /\ UNCHANGED fm

ListedPages == { <<<<"a">>>>, <<<<"b">>, <<"c">>>>, <<>> }

InitList ==
    /\ IdleEdit
    /\ IdleRun
    /\ IdlePure
    /\ IdleAgg
    /\ IdleRace
    /\ fm = NoFetch
    /\ fcm \in { FcmStart(s) : s \in SeqsUpTo(ListedPages, MaxPages) \ {<<>>} }

NextList ==
    \/ FcmRequestAnswered /\ UNCHANGED <<editVars, pureVars, runVars, aggVars, raceVars>>
    \/ FcmRequestFails /\ UNCHANGED <<editVars, pureVars, runVars, aggVars, raceVars>>

SpecList == InitList /\ [][NextList]_vars

(***************************************************************************)
(* build_category_name called once on arguments of the kinds the tests     *)
(* use, and on some they do not.                                           *)
(***************************************************************************)
NameEntities ==
    { <<"W","o","r","l","d">>, <<"w","o","r","l","d">>, <<"C","a","n","a","d","a">>, <<"U","n","i","t","e","d"," ","S","t","a","t","e","s">>, <<"U","n","i","t","e","d"," ","K","i","n","g","d","o","m">>,
      <<"t","h","e"," ","U","n","i","t","e","d"," ","S","t","a","t","e","s">>, <<"V","a","t","i","c","a","n">>, <<"V","a","t","i","c","a","n"," ","C","i","t","y">>, <<"G","a","m","b","i","a">>,
      <<"A","f","r","i","c","a">>, <<"N","o","r","t","h"," ","A","m","e","r","i","c","a">>, <<"N","e","t","h","e","r","l","a","n","d","s"," ","A","n","t","i","l","l","e","s">>, <<>> }
NameKinds == { "country", "continent" }
NameFilesTypes == { S_graphs, S_maps, <<"c","h","a","r","t","s">>, <<"M","a","p","s">>, <<>> }

InitName ==
    /\ IdleEdit
    /\ IdleRun
    /\ IdleAgg
    /\ IdleFetch
    /\ IdleRace
    /\ lastCheck = NoCheck
    /\ cls = NoClassify
    /\ named \in { [called |-> FALSE, entity_name |-> e, category_type |-> k,
                    files_type |-> f, result |-> <<>>] :
                   e \in NameEntities, k \in NameKinds, f \in NameFilesTypes }

NameCall ==
    /\ ~named.called
    /\ named' = [named EXCEPT !.called = TRUE,
                              !.result = build_category_name(named.entity_name,
                                                             named.category_type,
                                                             named.files_type)]
    /\ UNCHANGED <<lastCheck, cls>>
    /\ UNCHANGED <<editVars, runVars, aggVars, fetchVars, raceVars>>

NextName == NameCall

SpecName == InitName /\ [][NextName]_vars

(***************************************************************************)
(* SpecRace: two add_category_to_page calls on one page, each for its own  *)
(* category, run by two workers whose statements interleave freely.        *)
(***************************************************************************)
SaveArgumentRereads(o, w) == AddNewText(w[o.title].text, o.category)

\* the text page.save is given: new_text, built from the text read earlier
SaveArgument(o, w) == o.new_text

RacePage(i) ==
    /\ ops[i].pc = "page"
    /\ ops' = [ops EXCEPT ![i] = AddPageStep(ops[i], wiki)]
    /\ UNCHANGED <<order, editVars>>

RaceRead(i) ==
    /\ ops[i].pc = "text"
    /\ ops' = [ops EXCEPT ![i] = AddReadStep(ops[i], wiki)]
    /\ order' = Append(order, <<i, "read">>)
    /\ UNCHANGED editVars

RaceSave(i) ==
    /\ ops[i].pc = "save"
    /\ wiki' = [wiki EXCEPT ![ops[i].title] = SavedPage(SaveArgument(ops[i], wiki))]
    /\ saves' = Append(saves, SaveEntry(ops[i].title, SaveArgument(ops[i], wiki),
                                        AddSummary(ops[i].category)))
    /\ events' = Append(events, "save")
    /\ ops' = [ops EXCEPT ![i] = AddSaveStep(ops[i])]
    /\ order' = Append(order, <<i, "save">>)
    /\ UNCHANGED <<wiki0, op, calls>>

InitRace ==
    /\ wiki \in [{PageA} -> {AbsentPage} \cup {SavedPage(t) : t \in EditTexts}]
    /\ wiki0 = wiki
    /\ op = IdleOp
    /\ saves = <<>>
    /\ calls = 0
    /\ events = <<>>
    /\ \E c1 \in EditCategories, c2 \in EditCategories :
          /\ c1 # c2
          /\ ops = <<NewOp(PageA, c1, FALSE), NewOp(PageA, c2, FALSE)>>
    /\ order = <<>>
    /\ IdlePure
    /\ IdleRun
    /\ IdleAgg
    /\ IdleFetch

NextRace ==
    \/ \E i \in 1..2 : RacePage(i) /\ UNCHANGED <<pureVars, runVars, aggVars, fetchVars>>
    \/ \E i \in 1..2 : RaceRead(i) /\ UNCHANGED <<pureVars, runVars, aggVars, fetchVars>>
    \/ \E i \in 1..2 : RaceSave(i) /\ UNCHANGED <<pureVars, runVars, aggVars, fetchVars>>

SpecRace == InitRace /\ [][NextRace]_vars

(***************************************************************************)
(* Properties.                                                             *)
(***************************************************************************)
\* number of places where p occurs in s
Occurrences(s, p) == Cardinality({ i \in 1..(Len(s) - Len(p) + 1) : StartsWithAt(s, p, i) })

\* the category an add_category_to_page save was made for, from its summary
SavedCategory(e) == SubSeq(e.summary, Len(S_Add) + 1, Len(e.summary))

\* C1: category-add is idempotent. The text an add saves is found to carry
\* the category, and keeps carrying it; no page is saved twice for one
\* category, a call goes on to save only when no earlier save added that
\* category, and the link [[C]] occurs at most once more than at the start.
C1_AddIdempotent ==
    /\ \A i \in DOMAIN saves :
          /\ category_exists_on_page(Some(saves[i].text), SavedCategory(saves[i]))
          /\ category_exists_on_page(Some(wiki[saves[i].title].text), SavedCategory(saves[i]))
    /\ \A i, j \in DOMAIN saves :
          (saves[i].title = saves[j].title /\ saves[i].summary = saves[j].summary) => i = j
    /\ op.pc = "save" =>
          \A i \in DOMAIN saves :
              ~(saves[i].title = op.title /\ SavedCategory(saves[i]) = op.category)
    /\ \A c \in EditCategories :
          Occurrences(wiki[PageA].text, Link(<<>>, c))
              <= Occurrences(wiki0[PageA].text, Link(<<>>, c)) + 1

\* a later call for a category already saved has returned False without saving
C1_Witness ==
    /\ op.pc = "done" /\ ~op.dry_run /\ op.result = "False"
    /\ op.reads = 1 /\ op.writes = 0
    /\ \E i \in DOMAIN saves :
          saves[i].title = op.title /\ SavedCategory(saves[i]) = op.category

\* C2 as claimed: for a category Category:N the result is true exactly when
\* the text holds [[Category:N]] or [[category:N]] with N spelled as given,
\* and false for an empty or absent text.
C2_Reference(page_text, category) ==
    LET name == SubSeq(category, Len(S_Category) + 1, Len(category))
    IN  /\ Truthy(page_text)
        /\ \/ Contains(page_text.s, Link(S_Category, name))
           \/ Contains(page_text.s, Link(S_category, name))

C2_KeywordOnlyCaseInsensitive ==
    (lastCheck.called /\ StartsWith(lastCheck.category, S_Category)) =>
        (lastCheck.result <=> C2_Reference(lastCheck.page_text, lastCheck.category))

\* C3: the text an add saves is rstrip(current_text) + "\n[[" + category +
\* "]]\n", with summary "Add " + category: the trimmed text read is a prefix
\* of it and nothing but the link line follows.
C3_AppendOnly ==
    (op.pc = "done" /\ op.writes = 1) =>
        LET e == saves[Len(saves)]
            trimmed == RStrip(op.current_text)
            tail == <<"\n", "[", "[">> \o op.category \o <<"]", "]", "\n">>
        IN  /\ e.title = op.title
            /\ e.text = trimmed \o tail
            /\ SubSeq(e.text, 1, Len(trimmed)) = trimmed
            /\ EndsWith(e.text, tail)
            /\ trimmed = <<>> \/ ~IsSpace(trimmed[Len(trimmed)])
            /\ \E k \in 0..Len(op.current_text) :
                  /\ trimmed = SubSeq(op.current_text, 1, k)
                  /\ \A i \in (k + 1)..Len(op.current_text) : IsSpace(op.current_text[i])
            /\ e.summary = <<"A", "d", "d", " ">> \o op.category
            /\ wiki[op.title].text = e.text

\* a save was made on a text that ended in whitespace
C3_Witness ==
    /\ op.pc = "done" /\ op.writes = 1
    /\ RStrip(op.current_text) # op.current_text
    /\ RStrip(op.current_text) # <<>>

\* C4: a finished call has one of three outcomes: page absent (no read, no
\* save, False); category present (one read, no save, False); category
\* absent (one read, True, one save unless dry_run). No call reads or saves
\* twice, and the log holds at most one save per call made.
C4_OneOutcome ==
    /\ op.reads <= 1 /\ op.writes <= 1
    /\ Len(saves) <= calls
    /\ op.pc = "done" =>
          IF ~wiki[op.title].exists
          THEN op.result = "False" /\ op.reads = 0 /\ op.writes = 0
          ELSE /\ op.reads = 1
               /\ IF category_exists_on_page(Some(op.current_text), op.category)
                  THEN op.result = "False" /\ op.writes = 0
                       /\ wiki[op.title].text = op.current_text
                  ELSE op.result = "True"
                       /\ op.writes = (IF op.dry_run THEN 0 ELSE 1)
    /\ op.pc = "save" => (op.reads = 1 /\ op.writes = 0 /\ ~op.dry_run)

\* the three outcomes have each been reached by the third call
C4_Witness ==
    /\ calls = MaxCalls /\ op.pc = "done" /\ Len(saves) = 2
    /\ op.result = "False" /\ op.reads = 1

\* C5: in a dry run nothing is saved: the wiki is what it was at the start.
C5_DryRunNoSave ==
    args.dry_run => (wiki = wiki0 /\ saves = <<>> /\ events = <<>>)

\* a dry run ended having counted an add and a skip, its category page absent
C5_Witness ==
    /\ args.dry_run /\ mpc = "summary"
    /\ total_stats.added >= 1 /\ total_stats.skipped >= 1
    /\ ~wiki[CatAfrica].exists
    /\ total_stats.continents_processed = 2

\* the text before the first comma of a title, a leading File: dropped
BeforeFirstComma(title) ==
    LET base == IF StartsWith(title, S_File)
                THEN SubSeq(title, Len(S_File) + 1, Len(title)) ELSE title
    IN  SubSeq(base, 1, Find(base, <<",">>) - 1)

\* a title that ends with the range grammar has been classified
C6_RangeCase == cls.called /\ cls.parts.kind = "range" /\ cls.parts.ext = S_svg

ContinentNames ==
    { <<"A","f","r","i","c","a">>, <<"A","n","t","a","r","c","t","i","c","a">>, <<"A","s","i","a">>, <<"E","u","r","o","p","e">>,
      <<"N","o","r","t","h"," ","A","m","e","r","i","c","a">>, <<"S","o","u","t","h"," ","A","m","e","r","i","c","a">>,
      <<"O","c","e","a","n","i","a">>, <<"A","m","e","r","i","c","a","s">>, <<"W","o","r","l","d">> }

\* C7 as claimed: a single-locator title whose region is a continent name is
\* never put on the unmatched list and never becomes a country map.
C7_IsContinentTitle(t) ==
    /\ ~GraphSearch(t).ok
    /\ MapSearch(t).ok
    /\ Strip(MapSearch(t).g1) \in ContinentNames

C7_ContinentMapKept ==
    \A k \in 1..(idx - 1) :
        C7_IsContinentTitle(files[k]) =>
            /\ \A i \in DOMAIN not_matched : not_matched[i] # files[k]
            /\ \A c \in DOMAIN countries :
                  \A i \in DOMAIN countries[c].maps : countries[c].maps[i].title # files[k]

\* a single-locator title whose region resolves has been classified
C8_CountryCase ==
    /\ cls.called /\ cls.parts.kind = "single" /\ cls.parts.ext = S_svg
    /\ Truthy(get_iso3_from_country(Strip(cls.parts.region)))

C9_IsIso3(x) == Len(x) = 3 /\ \A i \in 1..3 : IsUpper(x[i])

C9_Iso3ThreeUpper ==
    \A c \in DOMAIN countries : C9_IsIso3(c) /\ C9_IsIso3(countries[c].iso3)

\* the permutations of a list
Perms(f) == { [i \in 1..Len(f) |-> f[sigma[i]]] : sigma \in Permutations(1..Len(f)) }

Count(f, e) == Cardinality({ i \in DOMAIN f : f[i] = e })
SameBag(f, g) == Len(f) = Len(g) /\ \A i \in DOMAIN f : Count(f, f[i]) = Count(g, f[i])

\* C10: when the loop is over, process_files on any permutation of the list
\* gives the same country keys, each record with the same display name and
\* the same entries up to order, and the same unmatched titles up to order.
C10_OrderIndependent ==
    (idx = Len(files) + 1) =>
        \A q \in Perms(files) :
            LET r == process_files(q)
            IN  /\ DOMAIN r.countries = DOMAIN countries
                /\ \A c \in DOMAIN countries :
                      /\ r.countries[c].country = countries[c].country
                      /\ SameBag(r.countries[c].graphs, countries[c].graphs)
                      /\ SameBag(r.countries[c].maps, countries[c].maps)
                /\ SameBag(r.not_matched, not_matched)

\* three titles done: a country holding two different graphs, another key
\* beside it or an unmatched title
C10_Witness ==
    /\ idx = Len(files) + 1 /\ Len(files) = MaxTitles
    /\ \E c \in DOMAIN countries :
          /\ Len(countries[c].graphs) = 2
          /\ countries[c].graphs[1] # countries[c].graphs[2]
    /\ Len(not_matched) = 1

\* a title of neither grammar
NeitherGrammar(t) == ~GraphSearch(t).ok /\ ~MapSearch(t).ok

\* a single-locator title whose region the country lookup does not resolve
UnresolvedRegion(t) ==
    /\ ~GraphSearch(t).ok
    /\ MapSearch(t).ok
    /\ get_iso3_from_country(Strip(MapSearch(t).g1)).none

\* C11: a pass of the loop over a title of neither grammar, or over a
\* single-locator title with an unresolved region, appends the title as it
\* was given to the unmatched list, leaves every country record as it was,
\* and moves on to the next title.
C11_UnmatchedVerbatim ==
    [][ (idx >= 1 /\ idx <= Len(files)
         /\ (NeitherGrammar(files[idx]) \/ UnresolvedRegion(files[idx])))
        => /\ not_matched' = Append(not_matched, files[idx])
           /\ countries' = countries
           /\ idx' = idx + 1 ]_vars

\* the loop is over: a prefixed title of neither grammar and a title with an
\* unresolved region are on the unmatched list in input order, and the title
\* after them was filed under a country
C11_Witness ==
    /\ idx = Len(files) + 1 /\ Len(files) = 3
    /\ NeitherGrammar(files[1]) /\ StartsWith(files[1], S_File)
    /\ UnresolvedRegion(files[2])
    /\ not_matched = <<files[1], files[2]>>
    /\ DOMAIN countries # {}

\* a range title whose code the reverse lookup does not know
UnknownCode(t) ==
    GraphSearch(t).ok /\ get_country_from_iso3(GraphSearch(t).g3).none

\* C12: a pass of the loop over a title whose code the reverse lookup does
\* not know leaves a country record under that code with a null display
\* name and the title's entry as the last of its graphs; the title is not
\* put on the unmatched list and is counted as a graph, not as unknown or
\* unresolved.
C12_UnknownCodeFiled ==
    [][ (idx >= 1 /\ idx <= Len(files) /\ UnknownCode(files[idx]))
        => LET code == GraphSearch(files[idx]).g3
           IN  /\ code \in DOMAIN countries'
               /\ countries'[code].iso3 = code
               /\ countries'[code].country = NoneStr
               /\ Len(countries'[code].graphs) >= 1
               /\ countries'[code].graphs[Len(countries'[code].graphs)].title = files[idx]
               /\ not_matched' = not_matched
               /\ stats'.graph_count = stats.graph_count + 1
               /\ stats'.unknown_count = stats.unknown_count
               /\ stats'.unresolved_region_count = stats.unresolved_region_count
               /\ idx' = idx + 1 ]_vars

\* the loop is over: an unknown code has its record, created by its first
\* title and extended by its second, and nothing is unmatched
C12_Witness ==
    /\ idx = Len(files) + 1 /\ Len(files) >= 2
    /\ \A k \in DOMAIN files : UnknownCode(files[k])
    /\ <<"X","Y","Z">> \in DOMAIN countries
    /\ countries[<<"X","Y","Z">>].country = NoneStr
    /\ Len(countries[<<"X","Y","Z">>].graphs) = 2
    /\ not_matched = <<>>

\* the 18 names that take the article
C13_ArticleNames ==
    { <<"D","e","m","o","c","r","a","t","i","c"," ","R","e","p","u","b","l","i","c"," ","o","f"," ","C","o","n","g","o">>, <<"D","o","m","i","n","i","c","a","n"," ","R","e","p","u","b","l","i","c">>, <<"P","h","i","l","i","p","p","i","n","e","s">>,
      <<"N","e","t","h","e","r","l","a","n","d","s">>, <<"U","n","i","t","e","d"," ","A","r","a","b"," ","E","m","i","r","a","t","e","s">>, <<"U","n","i","t","e","d"," ","K","i","n","g","d","o","m">>,
      <<"U","n","i","t","e","d"," ","S","t","a","t","e","s">>, <<"C","z","e","c","h"," ","R","e","p","u","b","l","i","c">>, <<"C","e","n","t","r","a","l"," ","A","f","r","i","c","a","n"," ","R","e","p","u","b","l","i","c">>,
      <<"M","a","l","d","i","v","e","s">>, <<"S","e","y","c","h","e","l","l","e","s">>, <<"B","a","h","a","m","a","s">>, <<"M","a","r","s","h","a","l","l"," ","I","s","l","a","n","d","s">>,
      <<"S","o","l","o","m","o","n"," ","I","s","l","a","n","d","s">>, <<"C","o","m","o","r","o","s">>, <<"G","a","m","b","i","a">>, <<"V","a","t","i","c","a","n"," ","C","i","t","y">>, <<"V","a","t","i","c","a","n">> }

C13_Reference(entity, kind, files_type_arg) ==
    LET files_type == IF files_type_arg = <<"g","r","a","p","h","s">> \/ files_type_arg = <<"m","a","p","s">>
                      THEN files_type_arg ELSE <<"g","r","a","p","h","s">>
        prefix == <<"C","a","t","e","g","o","r","y",":","O","u","r"," ","W","o","r","l","d"," ","i","n"," ","D","a","t","a"," ">> \o files_type \o <<" ","o","f"," ">>
    IN  IF entity = <<"W","o","r","l","d">> THEN prefix \o <<"t","h","e"," ","w","o","r","l","d">>
        ELSE IF kind = "country" /\ entity \in C13_ArticleNames
        THEN prefix \o <<"t","h","e"," ">> \o entity
        ELSE prefix \o entity

C14_Members(w, continent) ==
    CategoryMembers(w, Replace(build_category_name(continent, "continent", S_graphs),
                               S_Category, <<>>))

\* C14 as claimed: with a cap N, process_continent_file on an entity whose
\* category has at least N members returns at once, before the category
\* page is looked at and before any file page is read; and for any entity
\* added + skipped never exceeds N.
C14_CapSkipsFullCategory ==
    [][ LET N == args.files_per_continent
            data == continent_files[fidx]
        IN  /\ (pcf.pc = "load" /\ N # 0 /\ data.loaded /\ data.continent # <<>>
                /\ Cardinality(C14_Members(wiki, data.continent)) >= N)
               => pcf'.pc = "return"
            /\ N # 0 => pcf'.stats.added + pcf'.stats.skipped <= N ]_vars

\* C15: in a run, add_category_to_page on a page that does not exist ends
\* with False without reading or saving anything; process_continent_file
\* counts it under skipped (or errors), not under added, and goes on to the
\* next entry of the same entity.
C15_AbsentPageSkipped ==
    [][ /\ (mpc = "loop" /\ op.pc = "page" /\ ~wiki[op.title].exists)
           => /\ op'.pc = "done" /\ op'.result = "False"
              /\ op'.reads = 0 /\ op'.writes = 0
              /\ wiki' = wiki /\ saves' = saves
        /\ (pcf.pc = "adding" /\ op.pc = "done" /\ ~wiki[op.title].exists)
           => /\ pcf'.stats.added = pcf.stats.added
              /\ pcf'.stats.skipped + pcf'.stats.errors
                    = pcf.stats.skipped + pcf.stats.errors + 1
              /\ pcf'.pc = "graphs"
              /\ pcf'.gidx = pcf.gidx + 1 ]_vars

\* a finished run of two entities: File:A did not exist and was the first
\* entry of the first entity; File:B after it was saved, and the second
\* entity was processed too
C15_Witness ==
    /\ mpc = "summary"
    /\ ~wiki0[PageA].exists /\ ~wiki[PageA].exists
    /\ Len(continent_files) = 2
    /\ continent_files[1].graphs = <<PageA, PageB>>
    /\ \E i \in DOMAIN saves : saves[i].title = PageB
    /\ total_stats.skipped >= 1 /\ total_stats.added >= 1
    /\ total_stats.continents_processed = 2

\* the entity file in hand could not be loaded, or has no entity name
C16_BadEntityFile ==
    /\ fidx >= 1 /\ fidx <= Len(continent_files)
    /\ ~continent_files[fidx].loaded \/ continent_files[fidx].continent = <<>>

\* C16: process_continent_file on an entity file that could not be loaded or
\* that has no entity name returns straight from the load with errors >= 1,
\* added = 0 and skipped = 0, the wiki neither read nor written; main then
\* adds the error to its totals and goes on to the next entity file.
C16_BadFileCounted ==
    [][ /\ (pcf.pc = "load" /\ C16_BadEntityFile)
           => /\ pcf'.pc = "return"
              /\ pcf'.stats.errors >= 1
              /\ pcf'.stats.added = 0 /\ pcf'.stats.skipped = 0
              /\ op' = op /\ wiki' = wiki /\ saves' = saves /\ events' = events
        /\ (pcf.pc = "return" /\ C16_BadEntityFile)
           => /\ mpc' = "loop"
              /\ fidx' = fidx + 1
              /\ total_stats'.errors = total_stats.errors + pcf.stats.errors
              /\ total_stats'.added = total_stats.added
              /\ total_stats'.skipped = total_stats.skipped ]_vars

\* a finished run whose first entity file could not be loaded and whose
\* second entity had a category added to one of its pages
C16_Witness ==
    /\ mpc = "summary"
    /\ Len(continent_files) = 2
    /\ ~continent_files[1].loaded
    /\ continent_files[2].loaded /\ continent_files[2].continent # <<>>
    /\ total_stats.errors = 1
    /\ total_stats.added >= 1
    /\ total_stats.continents_processed = 2

\* C17 as claimed: once main is in its loop over the entity files
\* (credentials loaded, entity files found), it reaches the final summary,
\* whatever happens to single pages, a failed save included.
C17_RunReachesSummary == (mpc = "loop") ~> (mpc = "summary")

\* C18 as claimed: when the one PetScan request fails, it is not made again
\* and main stops there: process_files is not called and no country file,
\* summary file or unmatched file is written.
C18_FailedListingIsFatal ==
    (fm.pc # "off" /\ fm.response.kind = "error")
        => /\ fm.requests <= 1
           /\ fm.pc = "petscan"
           /\ ~fm.summary.written
           /\ ~fm.not_matched_file.written
           /\ fm.country_files = <<>>

\* the content of a new category page, written out
C19_Content(parent_category, sort_key) ==
    <<"[","[","C","a","t","e","g","o","r","y",":">> \o parent_category \o <<"|">> \o sort_key \o <<"]","]">>

\* C19: the ensure_category_exists step of a run saves nothing when the
\* category page exists, and nothing in a dry run; when the page is absent
\* and the run is not dry it makes exactly one save, of the category page,
\* with content '[[Category:' + parent_category + '|' + sort_key + ']]' and
\* summary 'Create category for OWID graphs'. In each case it returns True:
\* process_continent_file goes on to the entity's graphs with no error
\* counted.
C19_EnsureNeverOverwrites ==
    [][ pcf.pc = "ensure" =>
          /\ pcf'.pc = "graphs" /\ pcf'.stats = pcf.stats
          /\ (wiki[pcf.category].exists \/ args.dry_run)
                => (wiki' = wiki /\ saves' = saves)
          /\ (~wiki[pcf.category].exists /\ ~args.dry_run)
                => /\ saves' = Append(saves,
                        [title |-> pcf.category,
                         text |-> C19_Content(<<"O","u","r"," ","W","o","r","l","d"," ","i","n"," ","D","a","t","a"," ","g","r","a","p","h","s"," ","b","y"," ","c","o","n","t","i","n","e","n","t">>,
                                              pcf.continent),
                         summary |-> <<"C","r","e","a","t","e"," ","c","a","t","e","g","o","r","y"," ","f","o","r"," ","O","W","I","D"," ","g","r","a","p","h","s">>])
                   /\ wiki'[pcf.category] =
                        [exists |-> TRUE,
                         text |-> C19_Content(<<"O","u","r"," ","W","o","r","l","d"," ","i","n"," ","D","a","t","a"," ","g","r","a","p","h","s"," ","b","y"," ","c","o","n","t","i","n","e","n","t">>,
                                              pcf.continent)]
                   /\ \A t \in DOMAIN wiki \ {pcf.category} : wiki'[t] = wiki[t] ]_vars

\* a finished run over the same entity twice: its category page was absent,
\* was created by the first pass and left alone by the second
C19_Witness ==
    /\ mpc = "summary" /\ ~args.dry_run
    /\ Len(continent_files) = 2
    /\ continent_files[1].continent = <<"A","f","r","i","c","a">>
    /\ continent_files[2].continent = <<"A","f","r","i","c","a">>
    /\ ~wiki0[CatAfrica].exists
    /\ wiki[CatAfrica].text = <<"[","[","C","a","t","e","g","o","r","y",":","O","u","r"," ","W","o","r","l","d"," ","i","n"," ","D","a","t","a"," ","g","r","a","p","h","s"," ","b","y"," ","c","o","n","t","i","n","e","n","t","|","A","f","r","i","c","a","]","]">>
    /\ Cardinality({ i \in DOMAIN saves : saves[i].title = CatAfrica }) = 1
    /\ total_stats.continents_processed = 2

\* C20 as claimed: the delay of fetch_category_members starts at 1, is
\* doubled by each failure, never exceeds 8, and a failed request is never
\* propagated to the caller.
C20_RetriedIndefinitely ==
    fcm.pc # "off" =>
        /\ fcm.failures = 0 => fcm.delay = 1
        /\ fcm.delay \in {1, 2, 4, 8}
        /\ fcm.pc # "raised"

\* C20 amended: the delay starts at 1 and is doubled by each failure up to
\* the cap of 8, the call sleeping for the doubled delay before it asks for
\* the same page again; this happens for the first three failures of a
\* call, and the fourth failure, met with the delay at the cap, is
\* propagated to the caller.
C20_BoundedBackoff ==
    /\ [](fcm.pc # "off" =>
            /\ fcm.failures <= 4
            /\ fcm.delay = (CASE fcm.failures = 0 -> 1
                              [] fcm.failures = 1 -> 2
                              [] fcm.failures = 2 -> 4
                              [] OTHER -> 8)
            /\ fcm.pc = "raised" <=> fcm.failures = 4)
    /\ [][ (fcm.pc = "request" /\ fcm'.failures = fcm.failures + 1)
           => IF fcm.failures < 3
              THEN /\ fcm'.pc = "request"
                   /\ fcm'.delay = 2 * fcm.delay
                   /\ fcm'.sleeps = Append(fcm.sleeps, fcm'.delay)
                   /\ fcm'.cmcontinue = fcm.cmcontinue
              ELSE /\ fcm'.pc = "raised"
                   /\ fcm'.sleeps = fcm.sleeps ]_vars

\* a call that met three failures, slept 2, 4 and 8 seconds after them, and
\* still returned all three pages
C20_Witness ==
    /\ fcm.pc = "returned"
    /\ fcm.failures = 3
    /\ Len(fcm.served) = 3
    /\ fcm.page_count = 3
    /\ \E i, j, k \in DOMAIN fcm.sleeps :
          i < j /\ j < k /\ fcm.sleeps[i] = 2 /\ fcm.sleeps[j] = 4 /\ fcm.sleeps[k] = 8
    /\ fcm.all_files # <<>>

(***************************************************************************)
(* C21: in every run, between any save and the next save (the save that    *)
(* creates a category page and the first file-page save after it included) *)
(* at least one rate-limiting sleep occurs: the record of the run's saves  *)
(* and sleeps never has two saves next to each other.                      *)
(***************************************************************************)
C21_SleepBetweenSaves ==
    \A i \in 1..(Len(events) - 1) :
        ~(events[i] = "save" /\ events[i + 1] = "save")

\* place of a worker's page.text() or page.save() in the order of calls
Pos(who, what) == CHOOSE k \in 1..Len(order) : order[k] = <<who, what>>

BothAdded == \A i \in 1..2 : ops[i].pc = "done" /\ ops[i].result = "True"

\* both workers read the page before either saved
Interleaved == \A i \in 1..2, j \in 1..2 : Pos(i, "read") < Pos(j, "save")

\* one worker read the page only after the other had saved
Serialized == \E i \in 1..2, j \in 1..2 : i # j /\ Pos(i, "save") < Pos(j, "read")

Carries(category) == category_exists_on_page(Some(wiki[PageA].text), category)

(***************************************************************************)
(* C22: add_category_to_page is a non-atomic read-then-write. When two     *)
(* adds of different categories to one page have both returned True: if    *)
(* both read before either saved, the page holds the later save's text,    *)
(* which carries the later category and not the earlier one; if the reads  *)
(* and saves were serialized, the page carries both categories.            *)
(***************************************************************************)
C22_ReadThenWrite ==
    BothAdded =>
        /\ Interleaved =>
              \E i \in 1..2, j \in 1..2 :
                  /\ Pos(i, "save") < Pos(j, "save")
                  /\ wiki[PageA].text = ops[j].new_text
                  /\ Carries(ops[j].category)
                  /\ ~Carries(ops[i].category)
        /\ Serialized => \A i \in 1..2 : Carries(ops[i].category)
        /\ Interleaved \/ Serialized

\* the lost update: both calls returned True, one category is missing
C22_Witness ==
    /\ BothAdded
    /\ Interleaved
    /\ Len(saves) = 2
    /\ \E i \in 1..2 : ~Carries(ops[i].category)

\* classify_and_parse_file with the two patterns tried in the other order
classify_map_first(title) ==
    IF MapSearch(title).ok THEN MapRecord(title, MapSearch(title))
    ELSE IF GraphSearch(title).ok THEN GraphRecord(title, GraphSearch(title))
    ELSE Unclassified

(***************************************************************************)
(* C23: no title matches both GRAPH_PATTERN and MAP_PATTERN, so the result *)
(* of classify_and_parse_file is the one it would give with MAP_PATTERN    *)
(* tried first.                                                            *)
(***************************************************************************)
C23_PatternsDisjoint ==
    cls.called =>
        /\ ~(GraphSearch(cls.title).ok /\ MapSearch(cls.title).ok)
        /\ cls.result = classify_map_first(cls.title)

\* a range title whose last field is a number, as the single-locator
\* pattern wants it, has been classified
C23_Witness ==
    /\ cls.called
    /\ cls.result.type = "graph"
    /\ cls.result.iso3 = Some(<<"1">>)
    /\ cls.title \in { x.title : x \in PatternTitles }

\* the titles of a list of entries
TitlesOf(entries) == [k \in 1..Len(entries) |-> entries[k].title]

\* the titles already processed
Processed == SubSeq(files, 1, idx - 1)

\* l can be got from p by leaving elements out
IsSubsequence(l, p) ==
    \E f \in [1..Len(l) -> 1..Len(p)] :
        /\ \A k \in 1..Len(l) : l[k] = p[f[k]]
        /\ \A k \in 1..(Len(l) - 1) : f[k] < f[k + 1]

(***************************************************************************)
(* C24: within every output list the input order is kept. After every     *)
(* prefix of the input, the titles of each country record's graphs, those  *)
(* of its maps, and the unmatched list are subsequences of that prefix.    *)
(***************************************************************************)
C24_InputOrderKept ==
    /\ IsSubsequence(not_matched, Processed)
    /\ \A c \in DOMAIN countries :
          /\ IsSubsequence(TitlesOf(countries[c].graphs), Processed)
          /\ IsSubsequence(TitlesOf(countries[c].maps), Processed)

\* three titles are processed: one record holds two different graphs, and
\* the title between them in the input went to the unmatched list
C24_Witness ==
    /\ Len(Processed) = 3
    /\ not_matched = <<files[2]>>
    /\ \E c \in DOMAIN countries :
          /\ TitlesOf(countries[c].graphs) = <<files[1], files[3]>>
          /\ files[1] # files[3]

RECURSIVE SumOver(_, _)
\* the sum of f[c] over the keys c in S
SumOver(f, S) ==
    IF S = {} THEN 0
    ELSE LET c == CHOOSE x \in S : TRUE IN f[c] + SumOver(f, S \ {c})

GraphTotal == SumOver([c \in DOMAIN countries |-> Len(countries[c].graphs)], DOMAIN countries)
MapTotal == SumOver([c \in DOMAIN countries |-> Len(countries[c].maps)], DOMAIN countries)

\* the continent maps emitted so far: the processed single-locator titles
\* whose region is a continent name
ContinentMapsEmitted == Cardinality({ k \in 1..(idx - 1) : C7_IsContinentTitle(files[k]) })

\* the counters as they can be had from countries and not_matched alone
UnknownListed == Cardinality({ i \in DOMAIN not_matched : NeitherGrammar(not_matched[i]) })
UnresolvedListed ==
    Cardinality({ i \in DOMAIN not_matched :
                    UnresolvedRegion(not_matched[i]) /\ ~C7_IsContinentTitle(not_matched[i]) })

\* the part of C25 about graphs, maps and the shared unmatched list
C25_ListLengths ==
    /\ stats.graph_count = GraphTotal
    /\ stats.map_count = MapTotal
    /\ stats.unknown_count = UnknownListed
    /\ stats.unknown_count + stats.unresolved_region_count = Len(not_matched)

(***************************************************************************)
(* C25: after every processed title each summary counter can be computed   *)
(* again from the returned structures: graph_count and map_count are the   *)
(* sums of the lengths of the records' graphs and maps lists, the count of *)
(* continent maps emitted is the total length of the continent records'    *)
(* lists (process_files returns no continent record, so that total is 0),  *)
(* and the unmatched and unresolved-region counters are the numbers of     *)
(* titles of each kind on the unmatched list.                              *)
(***************************************************************************)
C25_CountersRecomputable ==
    /\ C25_ListLengths
    /\ ContinentMapsEmitted = 0
    /\ stats.unresolved_region_count = UnresolvedListed

\* how often a title is an entry of some record's graphs or maps list
Filed(t) ==
    SumOver([c \in DOMAIN countries |->
                Count(TitlesOf(countries[c].graphs), t) + Count(TitlesOf(countries[c].maps), t)],
            DOMAIN countries)

\* the lists a title is on: <<"not_matched">>, <<c, "graphs">>, <<c, "maps">>
ListsHolding(t) ==
    { <<"not_matched">> : x \in { i \in DOMAIN not_matched : not_matched[i] = t } }
    \cup { <<c, "graphs">> : c \in { d \in DOMAIN countries : Count(TitlesOf(countries[d].graphs), t) > 0 } }
    \cup { <<c, "maps">> : c \in { d \in DOMAIN countries : Count(TitlesOf(countries[d].maps), t) > 0 } }

(***************************************************************************)
(* C26: aggregation conserves titles. After every prefix of the input the  *)
(* number of titles processed is the total length of all graphs lists, all *)
(* maps lists and the unmatched list; every title is on exactly one list,  *)
(* as often as it occurs in the prefix; and every country record holds at  *)
(* least one entry.                                                        *)
(***************************************************************************)
C26_TitlesConserved ==
    /\ Len(Processed) = GraphTotal + MapTotal + Len(not_matched)
    /\ \A k \in DOMAIN Processed :
          /\ Count(Processed, Processed[k]) = Filed(Processed[k]) + Count(not_matched, Processed[k])
          /\ Cardinality(ListsHolding(Processed[k])) = 1
    /\ \A c \in DOMAIN countries :
          Len(countries[c].graphs) + Len(countries[c].maps) >= 1

\* a title given twice is on the unmatched list twice, a graph given once
\* is in its record
C26_Witness ==
    /\ Len(Processed) = 3
    /\ Len(not_matched) = 2
    /\ not_matched[1] = not_matched[2]
    /\ GraphTotal = 1

RECURSIVE Flatten(_)
\* the concatenation of a sequence of title lists
Flatten(pages) ==
    IF pages = <<>> THEN <<>> ELSE Head(pages) \o Flatten(Tail(pages))

(***************************************************************************)
(* C27: while fetch_category_members runs, all_files is the concatenation  *)
(* of the pages answered so far, in serving order, and when it returns     *)
(* every served page has been answered once; a failed request that is      *)
(* retried adds no title and leaves the continuation token as it was, so   *)
(* the next request asks for the same page.                                *)
(***************************************************************************)
C27_PagesOnceInOrder ==
    /\ [](fcm.pc \in {"request", "returned"} =>
            /\ fcm.all_files = Flatten(SubSeq(fcm.served, 1, fcm.page_count))
            /\ fcm.pc = "returned" => fcm.page_count = Len(fcm.served)
            /\ fcm.pc = "request" => PageAsked(fcm) = fcm.page_count + 1)
    /\ [][ (fcm.pc = "request" /\ fcm'.pc = "request"
            /\ fcm'.failures = fcm.failures + 1)
           => /\ fcm'.all_files = fcm.all_files
              /\ fcm'.cmcontinue = fcm.cmcontinue
              /\ fcm'.page_count = fcm.page_count ]_vars

\* a listing of three different pages returned whole although the request
\* for the second page failed twice
C27_Witness ==
    /\ fcm.pc = "returned"
    /\ fcm.requested = <<1, 2, 2, 2, 3>>
    /\ fcm.all_files = << <<"b">>, <<"c">>, <<"a">> >>

(***************************************************************************)
(* C28: the retry budget of fetch_category_members is shared by the whole  *)
(* listing. The delay never goes down and an answered page leaves it as it *)
(* is, sleeping for it before the next page is asked for; so over all      *)
(* pages three failed requests are retried, the fourth raises, and the     *)
(* titles gathered up to then are lost with it.                            *)
(***************************************************************************)
C28_SharedRetryBudget ==
    /\ [](fcm.pc # "off" =>
            /\ fcm.failures <= 4
            /\ fcm.pc = "raised" <=> fcm.failures = 4
            /\ fcm.pc = "raised" => fcm.all_files = <<>>
            /\ fcm.pc = "request" /\ fcm.failures = 3 => fcm.delay = max_delay)
    /\ [][ fcm.pc = "request" =>
             /\ fcm'.delay >= fcm.delay
             /\ fcm'.failures = fcm.failures =>
                   /\ fcm'.delay = fcm.delay
                   /\ fcm'.pc = "request" => fcm'.sleeps = Append(fcm.sleeps, fcm.delay)
             /\ fcm'.pc = "raised" => fcm.failures = 3 ]_vars

\* two pages were fetched, each after one failed request, and the second
\* failed request for the third page raised: four failures over three pages
C28_Witness ==
    /\ fcm.pc = "raised"
    /\ fcm.requested = <<1, 1, 2, 2, 3, 3>>
    /\ fcm.sleeps = <<2, 2, 4, 4, 8>>
    /\ fcm.page_count = 2
    /\ Flatten(SubSeq(fcm.served, 1, 2)) # <<>>
    /\ fcm.all_files = <<>>

\* the result of add_category_to_page(site, title, category, dry_run=True)
\* on the wiki w: "True" or "False"
DryAddResult(w, title, category) ==
    IF AddPageStep(NewOp(title, category, TRUE), w).pc = "done"
    THEN "False"
    ELSE AddReadStep(AddPageStep(NewOp(title, category, TRUE), w), w).result

RECURSIVE DryGraphs(_, _)
\* the graphs loop of process_continent_file with dry_run=True: no call
\* changes the wiki, so every title is judged against w
DryGraphs(p, w) ==
    IF p.gidx > Len(p.graphs) THEN p.stats
    ELSE IF p.graphs[p.gidx] = <<>>
    THEN DryGraphs([p EXCEPT !.stats.errors = @ + 1, !.gidx = @ + 1], w)
    ELSE DryGraphs(PcfCounted(p, DryAddResult(w, p.graphs[p.gidx], p.category)), w)

\* what process_continent_file(site, file, dry_run=True, ...) returns on w
DryRunStats(w, data, files_per_continent) ==
    IF PcfLoaded(IdlePcf, data, w, files_per_continent).pc = "return"
    THEN PcfLoaded(IdlePcf, data, w, files_per_continent).stats
    ELSE DryGraphs(PcfLoaded(IdlePcf, data, w, files_per_continent), w)

\* process_continent_file has returned for the first entity file of the run,
\* which it started on the wiki as the run found it
FirstFileReturned == mpc = "loop" /\ fidx = 1 /\ pcf.pc = "return"

(***************************************************************************)
(* C29: dry-run reports the decisions of a real run. When                  *)
(* process_continent_file with dry_run=False returns, its added, skipped   *)
(* and errors counts are those the call with dry_run=True returns from the *)
(* same wiki state and the same entity file, files that list a title more  *)
(* than once included.                                                     *)
(***************************************************************************)
C29_DryRunSameCounts ==
    FirstFileReturned /\ ~args.dry_run =>
        pcf.stats = DryRunStats(wiki0, continent_files[1], args.files_per_continent)

\* process_continent_file has returned at the files_per_continent check:
\* the category was built and the graphs loop never started
CapSkipped == pcf.pc = "return" /\ pcf.category # <<>> /\ pcf.gidx = 0

\* the part of C30 about counting every entity file once
C30_CountedOnce ==
    mpc \in {"loop", "summary"} =>
        total_stats.continents_processed + total_stats.continents_skipped = fidx - 1

(***************************************************************************)
(* C30: in main's accounting every entity file iterated is counted once,   *)
(* as processed or as skipped, and a file is counted in continents_skipped *)
(* exactly when process_continent_file skipped it because its category had *)
(* at least files_per_continent members.                                   *)
(***************************************************************************)
C30_SkippedIffCapped ==
    /\ [](C30_CountedOnce)
    /\ [][ (mpc = "loop" /\ pcf.pc = "return" /\ pcf'.pc = "idle")
           => ((total_stats'.continents_skipped = total_stats.continents_skipped + 1)
               <=> CapSkipped) ]_vars

=============================================================================
